---- MODULE Spec2Model ----
(***************************************************************************)
(* The service host of shawl (src/src/service.rs): run_service, the SCM    *)
(* control handler, the child process it supervises and the restart        *)
(* policy, as a state machine.  Times are in milliseconds.                 *)
(***************************************************************************)
EXTENDS Integers, Sequences, FiniteSets, TLC

\* ------------------------------------------------------------------ bounds
\* How many times children end by themselves in one run.
MaxExits == 2
\* How many status polls (try_wait) fail in one run.
MaxPollErrors == 1
\* How many stop messages the channel holds at most.
MaxChan == 1
\* --stop-timeout takes the values 0, 50, .. 50 * MaxTimeoutSteps (or is absent).
MaxTimeoutSteps == 1
\* --restart-delay takes the values 0, 60, .. 60 * MaxDelaySteps (or is absent).
MaxDelaySteps == 1
\* The longest --restart-if / --restart-if-not list given to the policy functions.
MaxVecLen == 1
\* How many options, besides --name, a command line given to the parser carries.
MaxArgs == 2
\* How many Ctrl+C events reach the console of the host from elsewhere.
MaxExternal == 1
\* The longest list of start arguments, of --env, of --path and of --path-prepend
\* entries a service is started with.
MaxEntries == 2

\* ------------------------------------------------------- program constants
ERROR_PROCESS_ABORTED == 1067
DefaultStopTimeout == 3000
StopPollSleep == 50
DelayStep == 50
DelayRecvTimeout == 1
HalfWord == 65536

\* Option<T>
None == <<>>
Some(x) == <<x>>
IsSome(o) == o # <<>>
Unwrap(o) == o[1]
UnwrapOr(o, d) == IF o = <<>> THEN d ELSE o[1]

\* Vec<i32>::contains / slice::contains
Contains(v, x) == \E i \in DOMAIN v : v[i] = x
IsEmpty(v) == Len(v) = 0

Min(a, b) == IF a < b THEN a ELSE b
Max(a, b) == IF a > b THEN a ELSE b

\* `x as u32` for an i32 x, as the two 16-bit halves of the 32-bit result
\* (the value is hi * 2^16 + lo).
AsU32(x) == [hi |-> (x \div HalfWord) % HalfWord, lo |-> x % HalfWord]

\* ServiceExitCode
Win32(n) == [kind |-> "Win32", code |-> n]
ServiceSpecific(n) == [kind |-> "ServiceSpecific", code |-> n]
NO_ERROR == Win32(AsU32(0))

\* ------------------------------------------------------------ text values
\* A String is a sequence of characters.  The characters that the code looks at
\* (space, double quote, comma, equals sign, minus sign, the digits) are single
\* characters; a run of other characters is written as one word.
Space == " "
Quote == "\""
DigitChars == <<"0", "1", "2", "3", "4", "5", "6", "7", "8", "9">>

RECURSIVE Concat(_)
\* The concatenation of a sequence of strings.
Concat(ss) == IF ss = <<>> THEN <<>> ELSE Head(ss) \o Concat(Tail(ss))

RECURSIVE Join(_, _)
\* [String]::join(sep)
Join(ss, sep) ==
    IF ss = <<>> THEN <<>>
    ELSE IF Len(ss) = 1 THEN Head(ss)
         ELSE Head(ss) \o sep \o Join(Tail(ss), sep)

RECURSIVE SplitOn(_, _)
\* str::split(sep): the pieces between the occurrences of the character sep.
SplitOn(t, sep) ==
    IF \A i \in DOMAIN t : t[i] # sep THEN <<t>>
    ELSE LET k == CHOOSE i \in DOMAIN t : t[i] = sep /\ \A j \in 1..(i - 1) : t[j] # sep
         IN  <<SubSeq(t, 1, k - 1)>> \o SplitOn(SubSeq(t, k + 1, Len(t)), sep)

RECURSIVE Digits(_)
\* The decimal digits of a natural number.
Digits(n) ==
    IF n < 10 THEN <<DigitChars[n + 1]>>
    ELSE Digits(n \div 10) \o <<DigitChars[(n % 10) + 1]>>

\* i32::to_string, u64::to_string, usize::to_string
to_string(n) == IF n < 0 THEN <<"-">> \o Digits(-n) ELSE Digits(n)

IsDigit(c) == \E d \in DOMAIN DigitChars : DigitChars[d] = c
DigitValue(c) == (CHOOSE d \in DOMAIN DigitChars : DigitChars[d] = c) - 1

RECURSIVE DigitsValue(_)
DigitsValue(t) ==
    IF t = <<>> THEN 0
    ELSE DigitsValue(SubSeq(t, 1, Len(t) - 1)) * 10 + DigitValue(t[Len(t)])

\* str::parse::<u64>() / ::<usize>(): an optional plus sign and at least one digit.
ParseUnsigned(t) ==
    LET body == IF t # <<>> /\ t[1] = "+" THEN Tail(t) ELSE t
    IN  IF body # <<>> /\ \A i \in DOMAIN body : IsDigit(body[i])
        THEN [ok |-> TRUE, val |-> DigitsValue(body)]
        ELSE [ok |-> FALSE, val |-> 0]

\* str::parse::<i32>(): an optional sign and at least one digit.
ParseSigned(t) ==
    IF t # <<>> /\ t[1] = "-"
    THEN LET r == ParseUnsigned(Tail(t))
         IN  IF r.ok /\ Tail(t)[1] # "+" THEN [ok |-> TRUE, val |-> 0 - r.val]
             ELSE [ok |-> FALSE, val |-> 0]
    ELSE ParseUnsigned(t)

\* A one-word string.
Word(w) == <<w>>

\* ------------------------------------------------------------------ inputs
\* Exit codes a child may end with.
Codes == {-1, 0, 1, 7}
\* raw_os_error() of a failed spawn: absent, ERROR_FILE_NOT_FOUND, ERROR_ACCESS_DENIED.
SpawnErrors == {None, Some(2), Some(5)}

\* The four restart options; the argument parser lets at most one through.
RestartPolicies ==
    { [restart |-> FALSE, no_restart |-> FALSE, restart_if |-> <<>>, restart_if_not |-> <<>>],
      [restart |-> TRUE, no_restart |-> FALSE, restart_if |-> <<>>, restart_if_not |-> <<>>],
      [restart |-> FALSE, no_restart |-> TRUE, restart_if |-> <<>>, restart_if_not |-> <<>>],
      [restart |-> FALSE, no_restart |-> FALSE, restart_if |-> <<0, 7>>, restart_if_not |-> <<>>],
      [restart |-> FALSE, no_restart |-> FALSE, restart_if |-> <<>>, restart_if_not |-> <<7>>] }
PassOptions == {None, Some(<<1, -1>>)}
StopTimeouts == {None} \cup {Some(StopPollSleep * k) : k \in 0..MaxTimeoutSteps}
RestartDelays == {None} \cup {Some(60 * k) : k \in 0..MaxDelaySteps}

\* CommonOpts, the fields run_service reads.
AllConfigs ==
    { [restart |-> p.restart, no_restart |-> p.no_restart,
       restart_if |-> p.restart_if, restart_if_not |-> p.restart_if_not,
       pass |-> ps, stop_timeout |-> st, restart_delay |-> rd,
       kill_process_tree |-> k, no_log_cmd |-> nl] :
        p \in RestartPolicies, ps \in PassOptions, st \in StopTimeouts,
        rd \in RestartDelays, k \in BOOLEAN, nl \in BOOLEAN }

\* The configurations explored: every restart policy with every pass list and
\* every explicit stop timeout, and at most one of the default (long) stop
\* timeout, a restart delay, the process job and --no-log-cmd at a time.
Options(c) ==
    (IF c.stop_timeout = None THEN 1 ELSE 0) + (IF c.restart_delay # None THEN 1 ELSE 0)
    + (IF c.kill_process_tree THEN 1 ELSE 0) + (IF c.no_log_cmd THEN 1 ELSE 0)
Configs == {c \in AllConfigs : Options(c) <= 1}

VARIABLES
    cfg,                \* opts, from cli::evaluate_cli()
    pc,                 \* where the host thread is in run_service
    result,             \* what run_service returned: "none" while it runs
    reports,            \* the ServiceStatus values SCM accepted, in order
    chan,               \* messages in the shutdown channel
    service_exit_code,
    ignore_ctrlc,
    process_job,        \* "none", "held", "dropped"
    restart_after,      \* None, or Some(ms left until the deadline)
    children,           \* every child spawned in the run, oldest first
    pumps,              \* logger threads started and not yet joined
    elapsed,            \* start_time.elapsed(), held at stop_timeout once reached
    left_by,            \* which statement left the outer loop
    stop_consumed,      \* the host took a message from the channel
    ctrlc_count,        \* GenerateConsoleCtrlEvent calls
    kill_calls,         \* child.kill() calls
    exits,              \* children that ended by themselves so far
    poll_errors,        \* failed status polls so far
    spawn_error,        \* the error of the spawn that failed, if one did
    call                \* a recorded call of a restart-policy function or of the
                        \* control handler: arguments and result; or the call of
                        \* service_main with what the spawns read and were given

vars == <<cfg, pc, result, reports, chan, service_exit_code, ignore_ctrlc,
          process_job, restart_after, children, pumps, elapsed, left_by,
          stop_consumed, ctrlc_count, kill_calls, exits, poll_errors, spawn_error, call>>

hostvars == <<cfg, pc, result, reports, service_exit_code, ignore_ctrlc,
              process_job, restart_after, pumps, elapsed, left_by,
              stop_consumed, ctrlc_count, kill_calls, poll_errors, spawn_error>>

NoCall == [fn |-> "none"]

\* ------------------------------------------------------ the restart policy
\* Faulty variant: the final arm parenthesised as (restart || !no_restart) && code != 0.
should_restart_exited_command_Grouped(code, restart, no_restart, restart_if, restart_if_not) ==
    IF ~IsEmpty(restart_if)
    THEN Contains(restart_if, code)
    ELSE IF ~IsEmpty(restart_if_not)
         THEN ~Contains(restart_if_not, code)
         ELSE (restart \/ ~no_restart) /\ code # 0

\* Faulty variant: the final arm without the restart flag.
should_restart_exited_command_NoFlag(code, restart, no_restart, restart_if, restart_if_not) ==
    IF ~IsEmpty(restart_if)
    THEN Contains(restart_if, code)
    ELSE IF ~IsEmpty(restart_if_not)
         THEN ~Contains(restart_if_not, code)
         ELSE ~no_restart /\ code # 0

should_restart_exited_command(code, restart, no_restart, restart_if, restart_if_not) ==
    IF ~IsEmpty(restart_if)
    THEN Contains(restart_if, code)
    ELSE IF ~IsEmpty(restart_if_not)
         THEN ~Contains(restart_if_not, code)
         ELSE restart \/ (~no_restart /\ code # 0)

\* Faulty variant: a terminated child is restarted unless --no-restart is given.
should_restart_terminated_command_Default(restart, no_restart) == restart \/ ~no_restart

should_restart_terminated_command(restart, no_restart) == restart

\* pass = opts.pass.unwrap_or_else(|| vec![0])
pass == UnwrapOr(cfg.pass, <<0>>)
\* stop_timeout = opts.stop_timeout.unwrap_or(3000)
stop_timeout == UnwrapOr(cfg.stop_timeout, DefaultStopTimeout)

\* Faulty variant: success is exit code 0, the pass list is not read.
ExitedCode_ZeroOnly(code) ==
    IF code = 0 THEN NO_ERROR ELSE ServiceSpecific(AsU32(code))

\* The exit code recorded for a child that exited with `code`.
ExitedCode(code) ==
    IF Contains(pass, code) THEN NO_ERROR ELSE ServiceSpecific(AsU32(code))

\* Faulty variant: the OS code of the error is not read.
SpawnFailCode_Aborted(e) == Win32(AsU32(ERROR_PROCESS_ABORTED))

\* The exit code recorded for a failed spawn.
SpawnFailCode(e) ==
    IF IsSome(e) THEN Win32(AsU32(Unwrap(e)))
    ELSE Win32(AsU32(ERROR_PROCESS_ABORTED))

\* ServiceStatus
ServiceStatus(state, accepted, exit_code, wait_hint) ==
    [service_type |-> "OWN_PROCESS", current_state |-> state,
     controls_accepted |-> accepted, exit_code |-> exit_code,
     checkpoint |-> 0, wait_hint |-> wait_hint]

\* ------------------------------------------------- the command of a spawn
\* crate::simplify_path: the directory in the form the child is given.
simplify_path(p) == p

\* service_main leaving the service name among the start arguments.
service_main_KeepsName(arguments) == arguments

\* service_main: the first argument is the service name
service_main(arguments) == IF ~IsEmpty(arguments) THEN Tail(arguments) ELSE arguments

\* args with the start arguments appended whatever pass_start_args is.
args_Always == Tail(call.command) \o call.start_arguments

\* let mut args = command.collect(); if opts.pass_start_args { args.extend(start_arguments) }
args ==
    Tail(call.command) \o (IF call.pass_start_args THEN call.start_arguments ELSE <<>>)

Simplified(dirs) == Join([i \in DOMAIN dirs |-> simplify_path(dirs[i])], <<";">>)

\* if !opts.path.is_empty() { .. }
PathAppended(inherited) ==
    IF ~IsEmpty(call.path)
    THEN IF IsSome(inherited)
         THEN Some(Unwrap(inherited) \o <<";">> \o Simplified(call.path))
         ELSE Some(Simplified(call.path))
    ELSE inherited

\* The --path-prepend entries put after what is there so far.
PathPrepended_After(so_far) ==
    IF ~IsEmpty(call.path_prepend)
    THEN IF IsSome(so_far)
         THEN Some(Unwrap(so_far) \o <<";">> \o Simplified(call.path_prepend))
         ELSE Some(Simplified(call.path_prepend))
    ELSE so_far

\* if !opts.path_prepend.is_empty() { .. }
PathPrepended(so_far) ==
    IF ~IsEmpty(call.path_prepend)
    THEN IF IsSome(so_far)
         THEN Some(Simplified(call.path_prepend) \o <<";">> \o Unwrap(so_far))
         ELSE Some(Simplified(call.path_prepend))
    ELSE so_far

\* if let Some(active_cwd) = &cwd { .. }
PathWithCwd(so_far) ==
    IF IsSome(call.cwd)
    THEN IF IsSome(so_far)
         THEN Some(Unwrap(so_far) \o <<";">> \o simplify_path(Unwrap(call.cwd)))
         ELSE Some(simplify_path(Unwrap(call.cwd)))
    ELSE so_far

\* path_env when child_cmd.env("PATH", ..) is reached; call.path_var is
\* std::env::var("PATH").ok()
path_env == PathWithCwd(PathPrepended(PathAppended(call.path_var)))

\* The Command handed to spawn(): program, args, the env(key, value) calls in the
\* order they are made, current_dir.
child_cmd ==
    [program |-> Head(call.command),
     args |-> args,
     envs |-> call.env \o (IF IsSome(path_env) THEN <<<<Word("PATH"), Unwrap(path_env)>>>>
                           ELSE <<>>),
     current_dir |-> IF IsSome(call.cwd) THEN Some(simplify_path(Unwrap(call.cwd))) ELSE None]

\* ------------------------------------------------------------ the children
NewChild == [st |-> "running", code |-> 0, in_job |-> FALSE]
Current == children[Len(children)]

\* The handle of the previous child is closed when `child` goes out of scope at
\* the end of an iteration: of an earlier child only whether it still runs, and
\* in the job, is left.
Forget(ch) ==
    [i \in DOMAIN ch |->
        IF ch[i].st = "running" THEN ch[i]
        ELSE [st |-> "ended", code |-> 0, in_job |-> FALSE]]

\* Faulty variant: closing the job handle terminates the last child only.
KillJob_LastOnly(ch) ==
    [i \in DOMAIN ch |->
        IF i = Len(ch) /\ ch[i].in_job /\ ch[i].st = "running"
        THEN [st |-> "killed", code |-> 0, in_job |-> TRUE]
        ELSE ch[i]]

\* Closing the job handle: every process assigned to the job is terminated.
KillJob(ch) ==
    [i \in DOMAIN ch |->
        IF ch[i].in_job /\ ch[i].st = "running"
        THEN [st |-> IF i = Len(ch) THEN "killed" ELSE "ended", code |-> 0,
              in_job |-> i = Len(ch)]
        ELSE ch[i]]

\* The logger threads end when the pipes they read close (the child has ended);
\* with --no-log-cmd they return at once.
PumpsDone == cfg.no_log_cmd \/ Current.st # "running"

LastState == IF Len(reports) = 0 THEN "none" ELSE reports[Len(reports)].current_state

\* ------------------------------------------------------------------- Init
\* The state of run_service before its first call, whatever the options are.
Start ==
    /\ pc = "register"
    /\ result = "none"
    /\ reports = <<>>
    /\ chan = 0
    /\ service_exit_code = NO_ERROR
    /\ ignore_ctrlc = FALSE
    /\ process_job = "none"
    /\ restart_after = None
    /\ children = <<>>
    /\ pumps = 0
    /\ elapsed = 0
    /\ left_by = "none"
    /\ stop_consumed = FALSE
    /\ ctrlc_count = 0
    /\ kill_calls = 0
    /\ exits = 0
    /\ poll_errors = 0
    /\ spawn_error = [failed |-> FALSE, raw |-> None]
    /\ call = NoCall

Init == cfg \in Configs /\ Start

\* ------------------------------------------------------- the host thread
\* Where run_service is once it has its result: about to drop the job it holds,
\* or back in service_main.
AfterLoop == IF process_job = "held" THEN "exit" ELSE "returned"

\* `?` on a failed call: run_service returns the error.
Fail ==
    /\ result' = "Err"
    /\ pc' = AfterLoop

\* Faulty variant: the result of the registration is not looked at.
Register_Unchecked ==
    /\ pc = "register"
    /\ \/ /\ pc' = "report_running"
          /\ UNCHANGED result
       \/ /\ pc' = "report_running"
          /\ result' = "Err"
    /\ UNCHANGED <<cfg, reports, chan, service_exit_code, ignore_ctrlc, process_job,
                   restart_after, children, pumps, elapsed, left_by,
                   stop_consumed, ctrlc_count, kill_calls, exits, poll_errors, spawn_error, call>>

\* service_control_handler::register(name, event_handler)?
Register ==
    /\ pc = "register"
    /\ \/ /\ pc' = "report_running"
          /\ UNCHANGED result
       \/ Fail
    /\ UNCHANGED <<cfg, reports, chan, service_exit_code, ignore_ctrlc, process_job,
                   restart_after, children, pumps, elapsed, left_by,
                   stop_consumed, ctrlc_count, kill_calls, exits, poll_errors, spawn_error, call>>

\* set_service_status(Running)?
ReportRunning ==
    /\ pc = "report_running"
    /\ \/ /\ reports' = Append(reports,
                ServiceStatus("Running", {"STOP", "SHUTDOWN"}, NO_ERROR, 0))
          /\ pc' = "create_job"
          /\ UNCHANGED result
       \/ /\ Fail
          /\ UNCHANGED reports
    /\ UNCHANGED <<cfg, chan, service_exit_code, ignore_ctrlc, process_job,
                   restart_after, children, pumps, elapsed, left_by,
                   stop_consumed, ctrlc_count, kill_calls, exits, poll_errors, spawn_error, call>>

\* ProcessJob::create_kill_on_close() when kill_process_tree is set
CreateJob ==
    /\ pc = "create_job"
    /\ \/ /\ cfg.kill_process_tree
          /\ process_job' = "held"
       \/ /\ cfg.kill_process_tree
          /\ process_job' = "none"
       \/ /\ ~cfg.kill_process_tree
          /\ process_job' = "none"
    /\ pc' = "launch"
    /\ UNCHANGED <<cfg, result, reports, chan, service_exit_code, ignore_ctrlc,
                   restart_after, children, pumps, elapsed, left_by,
                   stop_consumed, ctrlc_count, kill_calls, exits, poll_errors, spawn_error, call>>

\* Faulty variant: the delay is slept through without looking at the channel.
Delay_IgnoresStop ==
    /\ pc = "delay"
    /\ LET left == Max(0, Unwrap(restart_after) - DelayRecvTimeout)
           step == Min(left, DelayStep)
       IN  IF left > 0
           THEN /\ restart_after' \in {Some(left - step), Some(0)}
                /\ pc' = "delay"
           ELSE /\ restart_after' = None
                /\ pc' = "launch"
    /\ UNCHANGED <<cfg, result, reports, chan, service_exit_code, ignore_ctrlc, process_job,
                   children, pumps, elapsed, left_by, stop_consumed, ctrlc_count,
                   kill_calls, exits, poll_errors, spawn_error, call>>

\* Faulty variant: the child is launched at the first look, before the deadline.
Delay_NoWait ==
    /\ pc = "delay"
    /\ \/ /\ chan > 0
          /\ chan' = chan - 1
          /\ stop_consumed' = TRUE
          /\ left_by' = "cancelled"
          /\ pc' = "report_stopped"
          /\ UNCHANGED restart_after
       \/ /\ chan = 0
          /\ restart_after' = None
          /\ pc' = "launch"
          /\ UNCHANGED <<chan, stop_consumed, left_by>>
    /\ UNCHANGED <<cfg, result, reports, service_exit_code, ignore_ctrlc, process_job,
                   children, pumps, elapsed, ctrlc_count, kill_calls, exits,
                   poll_errors, spawn_error, call>>

\* The top of the outer loop while restart_after is set.
Delay ==
    /\ pc = "delay"
    /\ \/ /\ chan > 0
          /\ chan' = chan - 1
          /\ stop_consumed' = TRUE
          /\ left_by' = "cancelled"
          /\ pc' = "report_stopped"
          /\ UNCHANGED restart_after
       \/ /\ chan = 0
          /\ LET left == Max(0, Unwrap(restart_after) - DelayRecvTimeout)
                 step == Min(left, DelayStep)
             IN  IF left > 0
                 THEN /\ restart_after' \in {Some(left - step), Some(0)}
                      /\ pc' = "delay"
                 ELSE /\ restart_after' = None
                      /\ pc' = "launch"
          /\ UNCHANGED <<chan, stop_consumed, left_by>>
    /\ UNCHANGED <<cfg, result, reports, service_exit_code, ignore_ctrlc, process_job,
                   children, pumps, elapsed, ctrlc_count, kill_calls, exits,
                   poll_errors, spawn_error, call>>

\* child_cmd.spawn()
Launch ==
    /\ pc = "launch"
    /\ \/ /\ children' = Append(Forget(children), NewChild)
          /\ call' = IF call.fn = "service_main"
                     THEN [call EXCEPT !.spawns = Append(@, child_cmd)]
                     ELSE call
          /\ pc' = "assign"
          /\ UNCHANGED <<service_exit_code, left_by, spawn_error>>
       \/ \E e \in SpawnErrors :
            /\ spawn_error' = [failed |-> TRUE, raw |-> e]
            /\ service_exit_code' = SpawnFailCode(e)
            /\ left_by' = "spawn_failed"
            /\ pc' = "report_stopped"
            /\ UNCHANGED <<children, call>>
    /\ UNCHANGED <<cfg, result, reports, chan, ignore_ctrlc, process_job, restart_after,
                   pumps, elapsed, stop_consumed, ctrlc_count, kill_calls,
                   exits, poll_errors>>

\* pj.assign(&child) when a job is held, then the two logger threads are started.
Assign ==
    /\ pc = "assign"
    /\ \/ /\ process_job = "held"
          /\ children' = [children EXCEPT ![Len(children)].in_job = TRUE]
       \/ /\ process_job = "held"
          /\ UNCHANGED children
       \/ /\ process_job # "held"
          /\ UNCHANGED children
    /\ pumps' = pumps + 2
    /\ pc' = "inner_recv"
    /\ UNCHANGED <<cfg, result, reports, chan, service_exit_code, ignore_ctrlc,
                   process_job, restart_after, elapsed, left_by, stop_consumed,
                   ctrlc_count, kill_calls, exits, poll_errors, spawn_error, call>>

\* Faulty variant: the child's status is looked at first, and a stop message is
\* taken only while the child runs.
InnerRecv_StatusFirst ==
    /\ pc = "inner_recv"
    /\ \/ /\ chan > 0 /\ Current.st = "running"
          /\ chan' = chan - 1
          /\ stop_consumed' = TRUE
          /\ pc' = "report_stop_pending"
       \/ /\ chan = 0 \/ Current.st # "running"
          /\ pc' = "check"
          /\ UNCHANGED <<chan, stop_consumed>>
    /\ UNCHANGED <<cfg, result, reports, service_exit_code, ignore_ctrlc, process_job,
                   restart_after, children, pumps, elapsed, left_by,
                   ctrlc_count, kill_calls, exits, poll_errors, spawn_error, call>>

\* shutdown_rx.recv_timeout(1 s) at the top of the inner loop
InnerRecv ==
    /\ pc = "inner_recv"
    /\ \/ /\ chan > 0
          /\ chan' = chan - 1
          /\ stop_consumed' = TRUE
          /\ pc' = "report_stop_pending"
       \/ /\ chan = 0
          /\ pc' = "check"
          /\ UNCHANGED <<chan, stop_consumed>>
    /\ UNCHANGED <<cfg, result, reports, service_exit_code, ignore_ctrlc, process_job,
                   restart_after, children, pumps, elapsed, left_by,
                   ctrlc_count, kill_calls, exits, poll_errors, spawn_error, call>>

\* Faulty variant: a child that ended without an exit code is recorded as a success.
AbortedCode_NoError == NO_ERROR

\* The exit code recorded in a failed-poll or Terminated arm of the supervise loop.
AbortedCode == Win32(AsU32(ERROR_PROCESS_ABORTED))

\* A failed try_wait is possible whatever the child does.
PollMayFail == poll_errors < MaxPollErrors

\* Faulty variant: a child that stays down is handled like a stop event.
Check_StopsChild ==
    /\ pc = "check"
    /\ \/ /\ Current.st = "running"
          /\ pc' = "inner_recv"
          /\ UNCHANGED <<service_exit_code, left_by, poll_errors>>
       \/ /\ Current.st = "exited"
          /\ service_exit_code' = ExitedCode(Current.code)
          /\ IF should_restart_exited_command(Current.code, cfg.restart, cfg.no_restart,
                                              cfg.restart_if, cfg.restart_if_not)
             THEN /\ pc' = "join_stdout"
                  /\ UNCHANGED left_by
             ELSE /\ pc' = "report_stop_pending"
                  /\ left_by' = "exited"
          /\ UNCHANGED poll_errors
       \/ /\ Current.st = "terminated"
          /\ service_exit_code' = AbortedCode
          /\ IF should_restart_terminated_command(cfg.restart, cfg.no_restart)
             THEN /\ pc' = "join_stdout"
                  /\ UNCHANGED left_by
             ELSE /\ pc' = "report_stop_pending"
                  /\ left_by' = "terminated"
          /\ UNCHANGED poll_errors
       \/ /\ PollMayFail
          /\ poll_errors' = poll_errors + 1
          /\ service_exit_code' = AbortedCode
          /\ pc' = "join_stdout"
          /\ UNCHANGED left_by
    /\ UNCHANGED <<cfg, result, reports, chan, ignore_ctrlc, process_job, restart_after,
                   children, pumps, elapsed, stop_consumed, ctrlc_count, kill_calls,
                   exits, spawn_error, call>>

\* match check_process(&mut child) in the inner loop
Check ==
    /\ pc = "check"
    /\ \/ /\ Current.st = "running"
          /\ pc' = "inner_recv"
          /\ UNCHANGED <<service_exit_code, left_by, poll_errors>>
       \/ /\ Current.st = "exited"
          /\ service_exit_code' = ExitedCode(Current.code)
          /\ IF should_restart_exited_command(Current.code, cfg.restart, cfg.no_restart,
                                              cfg.restart_if, cfg.restart_if_not)
             THEN /\ pc' = "join_stdout"
                  /\ UNCHANGED left_by
             ELSE /\ pc' = "report_stopped"
                  /\ left_by' = "exited"
          /\ UNCHANGED poll_errors
       \/ /\ Current.st = "terminated"
          /\ service_exit_code' = AbortedCode
          /\ IF should_restart_terminated_command(cfg.restart, cfg.no_restart)
             THEN /\ pc' = "join_stdout"
                  /\ UNCHANGED left_by
             ELSE /\ pc' = "report_stopped"
                  /\ left_by' = "terminated"
          /\ UNCHANGED poll_errors
       \/ /\ PollMayFail
          /\ poll_errors' = poll_errors + 1
          /\ service_exit_code' = AbortedCode
          /\ pc' = "join_stdout"
          /\ UNCHANGED left_by
    /\ UNCHANGED <<cfg, result, reports, chan, ignore_ctrlc, process_job, restart_after,
                   children, pumps, elapsed, stop_consumed, ctrlc_count, kill_calls,
                   exits, spawn_error, call>>

\* stdout_logger.join()
JoinStdout ==
    /\ pc = "join_stdout"
    /\ PumpsDone
    /\ pumps' = pumps - 1
    /\ pc' = "join_stderr"
    /\ UNCHANGED <<cfg, result, reports, chan, service_exit_code, ignore_ctrlc,
                   process_job, restart_after, children, elapsed, left_by,
                   stop_consumed, ctrlc_count, kill_calls, exits, poll_errors, spawn_error, call>>

\* Faulty variant: the stderr logger is left running, not joined.
JoinStderr_Detached ==
    /\ pc = "join_stderr"
    /\ UNCHANGED pumps
    /\ IF IsSome(cfg.restart_delay)
       THEN /\ restart_after' = Some(Unwrap(cfg.restart_delay))
            /\ pc' = "delay"
       ELSE /\ pc' = "launch"
            /\ UNCHANGED restart_after
    /\ UNCHANGED <<cfg, result, reports, chan, service_exit_code, ignore_ctrlc,
                   process_job, children, elapsed, left_by, stop_consumed,
                   ctrlc_count, kill_calls, exits, poll_errors, spawn_error, call>>

\* stderr_logger.join(), then restart_after is set when restart_delay is given
JoinStderr ==
    /\ pc = "join_stderr"
    /\ PumpsDone
    /\ pumps' = pumps - 1
    /\ IF IsSome(cfg.restart_delay)
       THEN /\ restart_after' = Some(Unwrap(cfg.restart_delay))
            /\ pc' = "delay"
       ELSE /\ pc' = "launch"
            /\ UNCHANGED restart_after
    /\ UNCHANGED <<cfg, result, reports, chan, service_exit_code, ignore_ctrlc,
                   process_job, children, elapsed, left_by, stop_consumed,
                   ctrlc_count, kill_calls, exits, poll_errors, spawn_error, call>>

\* Faulty variant: the wait hint is the stop timeout itself, without the extra second.
StopWaitHint_NoMargin == UnwrapOr(cfg.stop_timeout, DefaultStopTimeout)

\* wait_hint of the StopPending report
StopWaitHint == UnwrapOr(cfg.stop_timeout, DefaultStopTimeout) + 1000

\* Faulty variant: the StopPending report is left out.
ReportStopPending_Skipped ==
    /\ pc = "report_stop_pending"
    /\ pc' = "set_ignore"
    /\ UNCHANGED <<cfg, result, reports, chan, service_exit_code, ignore_ctrlc, process_job,
                   restart_after, children, pumps, elapsed, left_by,
                   stop_consumed, ctrlc_count, kill_calls, exits, poll_errors,
                   spawn_error, call>>

\* Faulty variant: a failed StopPending report is passed over and the stop goes on.
ReportStopPending_Unchecked ==
    /\ pc = "report_stop_pending"
    /\ \/ reports' = Append(reports,
                ServiceStatus("StopPending", {}, NO_ERROR, StopWaitHint))
       \/ UNCHANGED reports
    /\ pc' = "set_ignore"
    /\ UNCHANGED <<cfg, result, chan, service_exit_code, ignore_ctrlc, process_job,
                   restart_after, children, pumps, elapsed, left_by,
                   stop_consumed, ctrlc_count, kill_calls, exits, poll_errors, spawn_error, call>>

\* set_service_status(StopPending)?
ReportStopPending ==
    /\ pc = "report_stop_pending"
    /\ \/ /\ reports' = Append(reports,
                ServiceStatus("StopPending", {}, NO_ERROR, StopWaitHint))
          /\ pc' = "set_ignore"
          /\ UNCHANGED result
       \/ /\ Fail
          /\ UNCHANGED reports
    /\ UNCHANGED <<cfg, chan, service_exit_code, ignore_ctrlc, process_job,
                   restart_after, children, pumps, elapsed, left_by,
                   stop_consumed, ctrlc_count, kill_calls, exits, poll_errors, spawn_error, call>>

\* ignore_ctrlc.store(true)
SetIgnore ==
    /\ pc = "set_ignore"
    /\ ignore_ctrlc' = TRUE
    /\ pc' = "gen_ctrlc"
    /\ UNCHANGED <<cfg, result, reports, chan, service_exit_code, process_job,
                   restart_after, children, pumps, elapsed, left_by,
                   stop_consumed, ctrlc_count, kill_calls, exits, poll_errors, spawn_error, call>>

\* GenerateConsoleCtrlEvent(CTRL_C_EVENT, 0), a failure is only logged;
\* then start_time = Instant::now()
GenerateCtrlC ==
    /\ pc = "gen_ctrlc"
    /\ ctrlc_count' = ctrlc_count + 1
    /\ elapsed' = 0
    /\ pc' = "stop_poll"
    /\ UNCHANGED <<cfg, result, reports, chan, service_exit_code, ignore_ctrlc,
                   process_job, restart_after, children, pumps, left_by,
                   stop_consumed, kill_calls, exits, poll_errors, spawn_error, call>>

\* Faulty variant: the timeout branch leaves the recorded exit code as it is.
TimeoutCode_Kept == service_exit_code

\* The exit code recorded when the stop timeout expires.
TimeoutCode == NO_ERROR

\* Faulty variant: the deadline is tested before the child is polled, so a child
\* that has exited by the deadline is killed all the same.
StopPoll_DeadlineFirst ==
    /\ pc = "stop_poll"
    /\ \/ /\ Current.st = "running"
          /\ elapsed < stop_timeout
          \* sleep(50 ms) returns after 50 ms or later
          /\ elapsed' \in {Min(elapsed + StopPollSleep, stop_timeout), stop_timeout}
          /\ UNCHANGED <<pc, process_job, children, kill_calls, service_exit_code,
                         left_by, poll_errors>>
       \/ /\ Current.st \in {"running", "exited"}
          /\ ~(elapsed < stop_timeout)
          /\ \/ /\ process_job = "held"
                /\ process_job' = "dropped"
                \* CloseHandle, its result is discarded
                /\ children' \in {KillJob(children), children}
                /\ UNCHANGED kill_calls
             \/ /\ process_job # "held"
                /\ kill_calls' = kill_calls + 1
                \* child.kill(), its result is discarded
                /\ children' \in {[children EXCEPT ![Len(children)].st = "killed"],
                                  children}
                /\ UNCHANGED process_job
          /\ service_exit_code' = TimeoutCode
          /\ left_by' = "stop_timeout"
          /\ pc' = "clear_ignore"
          /\ UNCHANGED <<elapsed, poll_errors>>
       \/ /\ Current.st = "exited"
          /\ elapsed < stop_timeout
          /\ service_exit_code' = ExitedCode(Current.code)
          /\ left_by' = "stop_exited"
          /\ pc' = "clear_ignore"
          /\ UNCHANGED <<elapsed, process_job, children, kill_calls, poll_errors>>
       \/ /\ Current.st = "terminated"
          /\ left_by' = "stop_terminated"
          /\ pc' = "clear_ignore"
          /\ UNCHANGED <<elapsed, process_job, children, kill_calls, poll_errors,
                         service_exit_code>>
       \/ /\ PollMayFail
          /\ poll_errors' = poll_errors + 1
          /\ left_by' = "stop_other"
          /\ pc' = "clear_ignore"
          /\ UNCHANGED <<elapsed, process_job, children, kill_calls, service_exit_code>>
    /\ UNCHANGED <<cfg, result, reports, chan, ignore_ctrlc, restart_after, pumps,
                   stop_consumed, ctrlc_count, exits, spawn_error, call>>

\* Faulty variant: after dropping the job the timeout branch goes on to call
\* child.kill() as well.
StopPoll_DropAndKill ==
    /\ pc = "stop_poll"
    /\ \/ /\ Current.st = "running"
          /\ elapsed < stop_timeout
          \* sleep(50 ms) returns after 50 ms or later
          /\ elapsed' \in {Min(elapsed + StopPollSleep, stop_timeout), stop_timeout}
          /\ UNCHANGED <<pc, process_job, children, kill_calls, service_exit_code,
                         left_by, poll_errors>>
       \/ /\ Current.st = "running"
          /\ ~(elapsed < stop_timeout)
          /\ \/ /\ process_job = "held"
                /\ process_job' = "dropped"
                \* CloseHandle, its result is discarded
                /\ children' \in {KillJob(children), children}
                /\ kill_calls' = kill_calls + 1
             \/ /\ process_job # "held"
                /\ kill_calls' = kill_calls + 1
                \* child.kill(), its result is discarded
                /\ children' \in {[children EXCEPT ![Len(children)].st = "killed"],
                                  children}
                /\ UNCHANGED process_job
          /\ service_exit_code' = TimeoutCode
          /\ left_by' = "stop_timeout"
          /\ pc' = "clear_ignore"
          /\ UNCHANGED <<elapsed, poll_errors>>
       \/ /\ Current.st = "exited"
          /\ service_exit_code' = ExitedCode(Current.code)
          /\ left_by' = "stop_exited"
          /\ pc' = "clear_ignore"
          /\ UNCHANGED <<elapsed, process_job, children, kill_calls, poll_errors>>
       \/ /\ Current.st = "terminated"
          /\ left_by' = "stop_terminated"
          /\ pc' = "clear_ignore"
          /\ UNCHANGED <<elapsed, process_job, children, kill_calls, poll_errors,
                         service_exit_code>>
       \/ /\ PollMayFail
          /\ poll_errors' = poll_errors + 1
          /\ left_by' = "stop_other"
          /\ pc' = "clear_ignore"
          /\ UNCHANGED <<elapsed, process_job, children, kill_calls, service_exit_code>>
    /\ UNCHANGED <<cfg, result, reports, chan, ignore_ctrlc, restart_after, pumps,
                   stop_consumed, ctrlc_count, exits, spawn_error, call>>

\* Faulty variant: a failed child.kill() is returned from run_service.
StopPoll_KillPropagated ==
    /\ pc = "stop_poll"
    /\ \/ /\ Current.st = "running"
          /\ elapsed < stop_timeout
          \* sleep(50 ms) returns after 50 ms or later
          /\ elapsed' \in {Min(elapsed + StopPollSleep, stop_timeout), stop_timeout}
          /\ UNCHANGED <<pc, process_job, children, kill_calls, service_exit_code,
                         left_by, poll_errors, result>>
       \/ /\ Current.st = "running"
          /\ ~(elapsed < stop_timeout)
          /\ \/ /\ process_job = "held"
                /\ process_job' = "dropped"
                /\ children' = KillJob(children)
                /\ UNCHANGED kill_calls
                /\ service_exit_code' = TimeoutCode
                /\ pc' = "clear_ignore"
                /\ UNCHANGED result
             \/ /\ process_job # "held"
                /\ kill_calls' = kill_calls + 1
                /\ children' = [children EXCEPT ![Len(children)].st = "killed"]
                /\ UNCHANGED process_job
                /\ service_exit_code' = TimeoutCode
                /\ pc' = "clear_ignore"
                /\ UNCHANGED result
             \/ /\ process_job # "held"
                /\ kill_calls' = kill_calls + 1
                \* child.kill()?
                /\ Fail
                /\ UNCHANGED <<children, process_job, service_exit_code>>
          /\ left_by' = "stop_timeout"
          /\ UNCHANGED <<elapsed, poll_errors>>
       \/ /\ Current.st = "exited"
          /\ service_exit_code' = ExitedCode(Current.code)
          /\ left_by' = "stop_exited"
          /\ pc' = "clear_ignore"
          /\ UNCHANGED <<elapsed, process_job, children, kill_calls, poll_errors, result>>
       \/ /\ Current.st = "terminated"
          /\ left_by' = "stop_terminated"
          /\ pc' = "clear_ignore"
          /\ UNCHANGED <<elapsed, process_job, children, kill_calls, poll_errors,
                         service_exit_code, result>>
       \/ /\ PollMayFail
          /\ poll_errors' = poll_errors + 1
          /\ left_by' = "stop_other"
          /\ pc' = "clear_ignore"
          /\ UNCHANGED <<elapsed, process_job, children, kill_calls, service_exit_code, result>>
    /\ UNCHANGED <<cfg, reports, chan, ignore_ctrlc, restart_after, pumps,
                   stop_consumed, ctrlc_count, exits, spawn_error, call>>

\* One iteration of the loop that waits for the child after Ctrl+C.
StopPoll ==
    /\ pc = "stop_poll"
    /\ \/ /\ Current.st = "running"
          /\ elapsed < stop_timeout
          \* sleep(50 ms) returns after 50 ms or later
          /\ elapsed' \in {Min(elapsed + StopPollSleep, stop_timeout), stop_timeout}
          /\ UNCHANGED <<pc, process_job, children, kill_calls, service_exit_code,
                         left_by, poll_errors>>
       \/ /\ Current.st = "running"
          /\ ~(elapsed < stop_timeout)
          /\ \/ /\ process_job = "held"
                /\ process_job' = "dropped"
                \* CloseHandle, its result is discarded
                /\ children' \in {KillJob(children), children}
                /\ UNCHANGED kill_calls
             \/ /\ process_job # "held"
                /\ kill_calls' = kill_calls + 1
                \* child.kill(), its result is discarded
                /\ children' \in {[children EXCEPT ![Len(children)].st = "killed"],
                                  children}
                /\ UNCHANGED process_job
          /\ service_exit_code' = TimeoutCode
          /\ left_by' = "stop_timeout"
          /\ pc' = "clear_ignore"
          /\ UNCHANGED <<elapsed, poll_errors>>
       \/ /\ Current.st = "exited"
          /\ service_exit_code' = ExitedCode(Current.code)
          /\ left_by' = "stop_exited"
          /\ pc' = "clear_ignore"
          /\ UNCHANGED <<elapsed, process_job, children, kill_calls, poll_errors>>
       \/ /\ Current.st = "terminated"
          /\ left_by' = "stop_terminated"
          /\ pc' = "clear_ignore"
          /\ UNCHANGED <<elapsed, process_job, children, kill_calls, poll_errors,
                         service_exit_code>>
       \/ /\ PollMayFail
          /\ poll_errors' = poll_errors + 1
          /\ left_by' = "stop_other"
          /\ pc' = "clear_ignore"
          /\ UNCHANGED <<elapsed, process_job, children, kill_calls, service_exit_code>>
    /\ UNCHANGED <<cfg, result, reports, chan, ignore_ctrlc, restart_after, pumps,
                   stop_consumed, ctrlc_count, exits, spawn_error, call>>

\* Faulty variant: the stop branch falls back into the inner loop instead of leaving
\* the outer one.
ClearIgnore_NoBreak ==
    /\ pc = "clear_ignore"
    /\ ignore_ctrlc' = FALSE
    /\ pc' = "inner_recv"
    /\ UNCHANGED <<cfg, result, reports, chan, service_exit_code, process_job,
                   restart_after, children, pumps, elapsed, left_by,
                   stop_consumed, ctrlc_count, kill_calls, exits, poll_errors,
                   spawn_error, call>>

\* Faulty variant: the flag is left raised when the stop branch is left.
ClearIgnore_KeepsFlag ==
    /\ pc = "clear_ignore"
    /\ pc' = "report_stopped"
    /\ UNCHANGED <<cfg, result, reports, chan, service_exit_code, ignore_ctrlc, process_job,
                   restart_after, children, pumps, elapsed, left_by,
                   stop_consumed, ctrlc_count, kill_calls, exits, poll_errors,
                   spawn_error, call>>

\* ignore_ctrlc.store(false); break 'outer
ClearIgnore ==
    /\ pc = "clear_ignore"
    /\ ignore_ctrlc' = FALSE
    /\ pc' = "report_stopped"
    /\ UNCHANGED <<cfg, result, reports, chan, service_exit_code, process_job,
                   restart_after, children, pumps, elapsed, left_by,
                   stop_consumed, ctrlc_count, kill_calls, exits, poll_errors, spawn_error, call>>

\* set_service_status(Stopped)?; Ok(())
ReportStopped ==
    /\ pc = "report_stopped"
    /\ \/ /\ reports' = Append(reports,
                ServiceStatus("Stopped", {}, service_exit_code, 0))
          /\ result' = "Ok"
          /\ pc' = AfterLoop
       \/ /\ Fail
          /\ UNCHANGED reports
    /\ UNCHANGED <<cfg, chan, service_exit_code, ignore_ctrlc, process_job,
                   restart_after, children, pumps, elapsed, left_by,
                   stop_consumed, ctrlc_count, kill_calls, exits, poll_errors, spawn_error, call>>

\* run_service returns holding the job: the job handle is dropped.
Return ==
    /\ pc = "exit"
    /\ pc' = "returned"
    /\ process_job' = "dropped"
    \* CloseHandle, its result is discarded
    /\ children' \in {KillJob(children), children}
    /\ UNCHANGED <<cfg, result, reports, chan, service_exit_code, ignore_ctrlc,
                   restart_after, pumps, elapsed, left_by, stop_consumed,
                   ctrlc_count, kill_calls, exits, poll_errors, spawn_error, call>>

\* ------------------------------------------------------ the control handler
\* SCM calls event_handler with Stop or Shutdown: shutdown_tx.send(())
HandlerStop ==
    /\ pc \notin {"register", "returned"}
    /\ LastState \in {"Running", "StopPending"}
    /\ chan < MaxChan
    /\ chan' = chan + 1
    /\ UNCHANGED <<hostvars, children, exits, spawn_error, call>>

\* -------------------------------------------------------------- the child
\* A running child exits with a code.
ChildExit ==
    /\ exits < MaxExits
    /\ pc \notin {"exit", "returned"}
    /\ children # <<>>
    /\ \/ \E c \in Codes :
            /\ Current.st = "running"
            /\ children' = [children EXCEPT ![Len(children)] =
                                [@ EXCEPT !.st = "exited", !.code = c]]
       \/ \E i \in 1..(Len(children) - 1) :
            /\ children[i].st = "running"
            /\ children' = [children EXCEPT ![i] =
                                [st |-> "ended", code |-> 0, in_job |-> FALSE]]
    /\ exits' = exits + 1
    /\ UNCHANGED <<hostvars, chan, call>>

\* A running child ends without an exit code.
ChildTerminated ==
    /\ exits < MaxExits
    /\ pc \notin {"exit", "returned"}
    /\ children # <<>>
    /\ Current.st = "running"
    /\ children' = [children EXCEPT ![Len(children)].st = "terminated"]
    /\ exits' = exits + 1
    /\ UNCHANGED <<hostvars, chan, call>>

Next ==
    \/ Register
    \/ ReportRunning
    \/ CreateJob
    \/ Delay
    \/ Launch
    \/ Assign
    \/ InnerRecv
    \/ Check
    \/ JoinStdout
    \/ JoinStderr
    \/ ReportStopPending
    \/ SetIgnore
    \/ GenerateCtrlC
    \/ StopPoll
    \/ ClearIgnore
    \/ ReportStopped
    \/ Return
    \/ HandlerStop
    \/ ChildExit
    \/ ChildTerminated

Spec == Init /\ [][Next]_vars

\* ------------------------------------- the restart policy, called directly
\* Vec<i32> values of at most MaxVecLen codes.
Vecs == UNION {[1..n -> Codes] : n \in 0..MaxVecLen}

ExitedCalls ==
    [fn : {"exited"}, code : Codes, restart : BOOLEAN, no_restart : BOOLEAN,
     restart_if : Vecs, restart_if_not : Vecs, done : {FALSE}, ret : {FALSE}]
TerminatedCalls ==
    [fn : {"terminated"}, code : {0}, restart : BOOLEAN, no_restart : BOOLEAN,
     restart_if : {<<>>}, restart_if_not : {<<>>}, done : {FALSE}, ret : {FALSE}]

\* Any arguments at all, also those the argument parser would reject.
InitPolicy ==
    /\ cfg \in {c \in Configs : Options(c) = 0 /\ c.pass = None /\ c.stop_timeout = Some(0)
                                /\ ~c.restart /\ ~c.no_restart
                                /\ c.restart_if = <<>> /\ c.restart_if_not = <<>>}
    /\ pc = "register"
    /\ result = "none"
    /\ reports = <<>>
    /\ chan = 0
    /\ service_exit_code = NO_ERROR
    /\ ignore_ctrlc = FALSE
    /\ process_job = "none"
    /\ restart_after = None
    /\ children = <<>>
    /\ pumps = 0
    /\ elapsed = 0
    /\ left_by = "none"
    /\ stop_consumed = FALSE
    /\ ctrlc_count = 0
    /\ kill_calls = 0
    /\ exits = 0
    /\ poll_errors = 0
    /\ spawn_error = [failed |-> FALSE, raw |-> None]
    /\ call \in ExitedCalls \cup TerminatedCalls

CallExited ==
    /\ call.fn = "exited"
    /\ ~call.done
    /\ call' = [call EXCEPT !.done = TRUE,
                  !.ret = should_restart_exited_command(call.code, call.restart,
                              call.no_restart, call.restart_if, call.restart_if_not)]
    /\ UNCHANGED <<hostvars, chan, children, exits>>

CallTerminated ==
    /\ call.fn = "terminated"
    /\ ~call.done
    /\ call' = [call EXCEPT !.done = TRUE,
                  !.ret = should_restart_terminated_command(call.restart, call.no_restart)]
    /\ UNCHANGED <<hostvars, chan, children, exits>>

NextPolicy == CallExited \/ CallTerminated

SpecPolicy == InitPolicy /\ [][NextPolicy]_vars

\* ------------------------------- the control handler, every control recorded
\* ServiceControl values SCM may hand to the handler; Pause stands for every
\* control other than Interrogate, Stop and Shutdown.
Controls == {"Interrogate", "Stop", "Shutdown", "Pause"}

\* Faulty variant: every control but Interrogate is taken as a request to stop.
event_handler_StopsOnAny(control_event) ==
    CASE control_event = "Interrogate" -> [ret |-> "NoError", send |-> FALSE]
      [] OTHER -> [ret |-> "NoError", send |-> TRUE]

\* The closure given to service_control_handler::register: what it returns, and
\* whether it sends () on shutdown_tx.
event_handler(control_event) ==
    CASE control_event = "Interrogate" -> [ret |-> "NoError", send |-> FALSE]
      [] control_event = "Stop" -> [ret |-> "NoError", send |-> TRUE]
      [] control_event = "Shutdown" -> [ret |-> "NoError", send |-> TRUE]
      [] OTHER -> [ret |-> "NotImplemented", send |-> FALSE]

\* SCM calls the handler on its own thread, at any time after registration.
EventHandler ==
    /\ pc \notin {"register", "returned"}
    /\ \E control_event \in Controls :
         LET h == event_handler(control_event)
         IN  /\ h.send => (LastState \in {"Running", "StopPending"} /\ chan < MaxChan)
             /\ chan' = IF h.send THEN chan + 1 ELSE chan
             /\ call' = [fn |-> "event_handler", control |-> control_event,
                         ret |-> h.ret]
    /\ UNCHANGED <<hostvars, children, exits>>

\* A smaller set of configurations: no pass list, the default restart policy, and
\* the options of Configs.
SmallConfigs ==
    {c \in Configs : c.pass = None /\ ~c.restart /\ ~c.no_restart
                      /\ c.restart_if = <<>> /\ c.restart_if_not = <<>>}

InitSmall == Init /\ cfg \in SmallConfigs

NextHandler ==
    \/ Register
    \/ ReportRunning
    \/ CreateJob
    \/ Delay
    \/ Launch
    \/ Assign
    \/ InnerRecv
    \/ Check
    \/ JoinStdout
    \/ JoinStderr
    \/ ReportStopPending
    \/ SetIgnore
    \/ GenerateCtrlC
    \/ StopPoll
    \/ ClearIgnore
    \/ ReportStopped
    \/ Return
    \/ EventHandler
    \/ ChildExit
    \/ ChildTerminated

SpecHandler == InitSmall /\ [][NextHandler]_vars

\* ------------------------------------------------------ runs with a process job
\* --kill-process-tree with and without --no-log-cmd and with every restart delay,
\* under the default restart policy with an explicit stop timeout.
JobConfigs ==
    {c \in AllConfigs : c.kill_process_tree /\ c.pass = None /\ c.stop_timeout # None
                         /\ ~c.restart /\ ~c.no_restart
                         /\ c.restart_if = <<>> /\ c.restart_if_not = <<>>}

InitJob == cfg \in JobConfigs /\ Start

SpecJob == InitJob /\ [][Next]_vars

\* ------------------------------------------------- the host thread is scheduled
\* The steps of the thread that runs run_service.
HostNext ==
    \/ Register
    \/ ReportRunning
    \/ CreateJob
    \/ Delay
    \/ Launch
    \/ Assign
    \/ InnerRecv
    \/ Check
    \/ JoinStdout
    \/ JoinStderr
    \/ ReportStopPending
    \/ SetIgnore
    \/ GenerateCtrlC
    \/ StopPoll
    \/ ClearIgnore
    \/ ReportStopped
    \/ Return

\* The host thread keeps running while it has a step to take (every call it makes
\* returns, every sleep and receive times out); nothing is assumed of the child or
\* of SCM.
SpecLive == InitSmall /\ [][Next]_vars /\ WF_vars(HostNext)

\* ----------------------------------------------------- the Ctrl+C handler
\* Ctrl+C events the console has delivered to the host process and the handler
\* has not run for yet: those of the host's own GenerateConsoleCtrlEvent calls
\* and those from elsewhere.
PendingCtrlC == ctrlc_count + call.external - call.handled

InitCtrlC ==
    /\ cfg \in SmallConfigs
    /\ pc = "register"
    /\ result = "none"
    /\ reports = <<>>
    /\ chan = 0
    /\ service_exit_code = NO_ERROR
    /\ ignore_ctrlc = FALSE
    /\ process_job = "none"
    /\ restart_after = None
    /\ children = <<>>
    /\ pumps = 0
    /\ elapsed = 0
    /\ left_by = "none"
    /\ stop_consumed = FALSE
    /\ ctrlc_count = 0
    /\ kill_calls = 0
    /\ exits = 0
    /\ poll_errors = 0
    /\ spawn_error = [failed |-> FALSE, raw |-> None]
    /\ call = [fn |-> "ctrlc_handler", external |-> 0, handled |-> 0,
               read |-> [ignore |-> FALSE, at |-> "none"]]

\* A Ctrl+C event from elsewhere reaches the console of the host.
ConsoleCtrlC ==
    /\ call.fn = "ctrlc_handler"
    /\ call.external < MaxExternal
    /\ pc \notin {"returned", "aborted"}
    /\ call' = [call EXCEPT !.external = @ + 1]
    /\ UNCHANGED <<hostvars, chan, children, exits>>

\* The closure given to ctrlc::set_handler, run on the handler thread for one
\* delivered event: abort unless the flag is raised.
CtrlCHandler ==
    /\ call.fn = "ctrlc_handler"
    /\ PendingCtrlC > 0
    /\ pc \notin {"returned", "aborted"}
    /\ call' = [call EXCEPT !.handled = @ + 1,
                            !.read = [ignore |-> ignore_ctrlc, at |-> pc]]
    /\ IF ~ignore_ctrlc
       THEN pc' = "aborted" /\ result' = "aborted"
       ELSE UNCHANGED <<pc, result>>
    /\ UNCHANGED <<cfg, reports, chan, service_exit_code, ignore_ctrlc, process_job,
                   restart_after, children, pumps, elapsed, left_by, stop_consumed,
                   ctrlc_count, kill_calls, exits, poll_errors, spawn_error>>

NextCtrlC == Next \/ ConsoleCtrlC \/ CtrlCHandler

SpecCtrlC == InitCtrlC /\ [][NextCtrlC]_vars

\* ------------------------------------------- the handler after run_service
\* shutdown_rx is a local of run_service and is dropped when it returns; the
\* closure that holds shutdown_tx was moved into the registration and is called
\* by SCM for as long as the service has not reported Stopped.  A Stop or
\* Shutdown control handled then: shutdown_tx.send(()) returns Err, which the
\* closure unwraps.
HandlerSendFails ==
    /\ pc = "returned"
    /\ LastState \in {"Running", "StopPending"}
    /\ call = NoCall
    /\ call' = [fn |-> "send", result |-> "Err"]
    /\ UNCHANGED <<hostvars, chan, children, exits>>

NextSend == Next \/ HandlerSendFails

SpecSend == InitSmall /\ [][NextSend]_vars

\* ------------------------------------------ the service with its start arguments
\* Sequences of at most n elements of S.
Lists(S, n) == UNION {[1..k -> S] : k \in 0..n}

ServiceName == Word("svc")
StartArgs == {Word("x"), Word("y")}
AppendDirs == {Word("C:\\a"), Word("C:\\b")}
PrependDirs == {Word("C:\\p"), Word("C:\\q")}
CwdDir == Word("C:\\work")
\* std::env::var("PATH").ok() in a host that has a PATH
HostPath == Some(<<"C:\\Windows", ";", "C:\\bin">>)
EnvEntries == {<<Word("K"), Word("1")>>, <<Word("K"), Word("2")>>,
               <<Word("PATH"), Word("C:\\env")>>}

\* The arguments SCM hands to service_main, the options of the run that the
\* spawn reads and the PATH of the host: the start arguments varied, then the
\* directories, then the env entries.
ServiceStarts ==
    LET base == [fn |-> "service_main", arguments |-> <<ServiceName>>,
                 start_arguments |-> <<>>, command |-> <<Word("prog")>>,
                 pass_start_args |-> FALSE, env |-> <<>>, path |-> <<>>,
                 path_prepend |-> <<>>, cwd |-> None, path_var |-> None, spawns |-> <<>>]
    IN  { [base EXCEPT !.arguments = a, !.command = c, !.pass_start_args = ps] :
            a \in {<<>>} \cup {<<ServiceName>> \o l : l \in Lists(StartArgs, MaxEntries)},
            c \in {<<Word("prog"), Word("--flag")>>}, ps \in BOOLEAN }
        \cup
        { [base EXCEPT !.path = d[1], !.path_prepend = d[2],
                       !.cwd = e[1], !.path_var = e[2]] :
            d \in (Lists(AppendDirs, MaxEntries) \X {<<>>, <<Word("C:\\p"), Word("C:\\q")>>})
                  \cup ({<<Word("C:\\a"), Word("C:\\b")>>} \X Lists(PrependDirs, MaxEntries)),
            e \in {<<None, None>>, <<None, HostPath>>, <<Some(CwdDir), HostPath>>} }
        \cup
        { [base EXCEPT !.env = e, !.path_var = pv] :
            e \in Lists(EnvEntries, MaxEntries), pv \in {None, HostPath} }

\* Always-restart configurations, so that a run has relaunches: one with a
\* restart delay and one with the process job.
SpawnConfigs ==
    {c \in Configs : c.restart /\ c.pass = None /\ c.stop_timeout = Some(0)
                     /\ (c.restart_delay = Some(0) \/ c.kill_process_tree)}

InitSpawn ==
    /\ cfg \in SpawnConfigs
    /\ pc = "service_main"
    /\ result = "none"
    /\ reports = <<>>
    /\ chan = 0
    /\ service_exit_code = NO_ERROR
    /\ ignore_ctrlc = FALSE
    /\ process_job = "none"
    /\ restart_after = None
    /\ children = <<>>
    /\ pumps = 0
    /\ elapsed = 0
    /\ left_by = "none"
    /\ stop_consumed = FALSE
    /\ ctrlc_count = 0
    /\ kill_calls = 0
    /\ exits = 0
    /\ poll_errors = 0
    /\ spawn_error = [failed |-> FALSE, raw |-> None]
    /\ call \in ServiceStarts
    \* with the process job, the short start arguments only
    /\ cfg.kill_process_tree =>
          /\ call.path = <<>> /\ call.path_prepend = <<>> /\ call.env = <<>>
          /\ Len(call.arguments) <= 2

\* service_main: drops the service name and calls run_service
ServiceMain ==
    /\ pc = "service_main"
    /\ call' = [call EXCEPT !.start_arguments = service_main(call.arguments)]
    /\ pc' = "register"
    /\ UNCHANGED <<cfg, result, reports, chan, service_exit_code, ignore_ctrlc,
                   process_job, restart_after, children, pumps, elapsed, left_by,
                   stop_consumed, ctrlc_count, kill_calls, exits, poll_errors, spawn_error>>

NextSpawn == ServiceMain \/ Next

SpecSpawn == InitSpawn /\ [][NextSpawn]_vars

\* ------------------------------------------------------ the add subcommand
\* CommonOpts::default()
DefaultOpts ==
    [pass |-> None, restart |-> FALSE, no_restart |-> FALSE,
     restart_if |-> <<>>, restart_if_not |-> <<>>, stop_timeout |-> None,
     no_log |-> FALSE, no_log_cmd |-> FALSE, log_dir |-> None, log_as |-> None,
     log_cmd_as |-> None, log_rotate |-> None, log_retain |-> None,
     pass_start_args |-> FALSE, env |-> <<>>, path |-> <<>>, path_prepend |-> <<>>,
     priority |-> None, command |-> <<>>]

\* Priority::to_cli
PriorityToCli(p) ==
    CASE p = "Realtime" -> Word("realtime")
      [] p = "High" -> Word("high")
      [] p = "AboveNormal" -> Word("above-normal")
      [] p = "Normal" -> Word("normal")
      [] p = "BelowNormal" -> Word("below-normal")
      [] p = "Idle" -> Word("idle")

\* quote with the quotes put around every text.
quote_Always(text) == <<Quote>> \o text \o <<Quote>>

\* control::quote
quote(text) ==
    IF \E i \in DOMAIN text : text[i] = Space
    THEN <<Quote>> \o text \o <<Quote>>
    ELSE text

\* control::prepare_command
prepare_command(command) == [i \in DOMAIN command |-> quote(command[i])]

\* codes.iter().map(|x| x.to_string()).collect::<Vec<String>>().join(",")
CodesToCli(codes) == Join([i \in DOMAIN codes |-> to_string(codes[i])], <<",">>)

\* control::construct_shawl_run_args
construct_shawl_run_args(name, cwd, opts) ==
    <<Word("run"), Word("--name"), quote(name)>>
    \o (IF IsSome(opts.stop_timeout)
        THEN <<Word("--stop-timeout"), to_string(Unwrap(opts.stop_timeout))>> ELSE <<>>)
    \o (IF opts.restart THEN <<Word("--restart")>> ELSE <<>>)
    \o (IF opts.no_restart THEN <<Word("--no-restart")>> ELSE <<>>)
    \o (IF ~IsEmpty(opts.restart_if)
        THEN <<Word("--restart-if"), CodesToCli(opts.restart_if)>> ELSE <<>>)
    \o (IF ~IsEmpty(opts.restart_if_not)
        THEN <<Word("--restart-if-not"), CodesToCli(opts.restart_if_not)>> ELSE <<>>)
    \o (IF IsSome(opts.pass)
        THEN <<Word("--pass"), CodesToCli(Unwrap(opts.pass))>> ELSE <<>>)
    \o (IF IsSome(cwd) THEN <<Word("--cwd"), quote(Unwrap(cwd))>> ELSE <<>>)
    \o (IF opts.no_log THEN <<Word("--no-log")>> ELSE <<>>)
    \o (IF opts.no_log_cmd THEN <<Word("--no-log-cmd")>> ELSE <<>>)
    \o (IF IsSome(opts.log_dir)
        THEN <<Word("--log-dir"), quote(Unwrap(opts.log_dir))>> ELSE <<>>)
    \o (IF opts.pass_start_args THEN <<Word("--pass-start-args")>> ELSE <<>>)
    \o Concat([i \in DOMAIN opts.env |->
                 <<Word("--env"), quote(opts.env[i][1] \o <<"=">> \o opts.env[i][2])>>])
    \o Concat([i \in DOMAIN opts.path |-> <<Word("--path"), quote(opts.path[i])>>])
    \o (IF IsSome(opts.priority)
        THEN <<Word("--priority"), PriorityToCli(Unwrap(opts.priority))>> ELSE <<>>)

\* The binPath that add_service hands to `sc create`:
\* format!("{} {} -- {}", shawl_path, shawl_args.join(" "), prepared_command.join(" "))
BinPath(exe, name, cwd, opts) ==
    quote(exe) \o <<Space>>
    \o Join(construct_shawl_run_args(name, cwd, opts), <<Space>>)
    \o <<Space>> \o Word("--") \o <<Space>>
    \o Join(prepare_command(opts.command), <<Space>>)

RECURSIVE SplitArgs(_, _, _, _)
\* How the started process reads its command line into arguments: a space
\* outside double quotes ends an argument, a double quote opens or closes a quoted
\* stretch and is not part of the argument, two double quotes inside a quoted
\* stretch stand for one.
SplitArgs(t, cur, in_quotes, started) ==
    IF t = <<>> THEN (IF started THEN <<cur>> ELSE <<>>)
    ELSE LET c == Head(t)
         IN  IF c = Space /\ ~in_quotes
             THEN (IF started THEN <<cur>> ELSE <<>>)
                  \o SplitArgs(Tail(t), <<>>, FALSE, FALSE)
             ELSE IF c = Quote /\ in_quotes
                  THEN IF Len(t) >= 2 /\ t[2] = Quote
                       THEN SplitArgs(Tail(Tail(t)), cur \o <<Quote>>, TRUE, TRUE)
                       ELSE SplitArgs(Tail(t), cur, FALSE, TRUE)
                  ELSE IF c = Quote
                       THEN SplitArgs(Tail(t), cur, TRUE, TRUE)
                       ELSE SplitArgs(Tail(t), cur \o <<c>>, in_quotes, TRUE)

\* std::env::args_os() of the process started with the command line t
CommandLineArgs(t) == SplitArgs(t, <<>>, FALSE, FALSE)

\* ------------------------------------------------------ the argument parser
\* The directories of the file system the command lines name: a path given
\* relative to the current directory or in its canonical form, without and with a
\* space.
RelDir == Word("dir")
AbsDir == Word("\\\\?\\C:\\work\\dir")
RelSpaceDir == <<"my", Space, "dir">>
AbsSpaceDir == <<"\\\\?\\C:\\work\\my", Space, "dir">>

\* std::fs::canonicalize, as cli::parse_canonical_path and
\* cli::parse_ensured_directory use it
canonicalize(t) ==
    CASE t = RelDir -> [ok |-> TRUE, val |-> AbsDir]
      [] t = AbsDir -> [ok |-> TRUE, val |-> AbsDir]
      [] t = RelSpaceDir -> [ok |-> TRUE, val |-> AbsSpaceDir]
      [] t = AbsSpaceDir -> [ok |-> TRUE, val |-> AbsSpaceDir]
      [] OTHER -> [ok |-> FALSE, val |-> <<>>]

\* impl FromStr for LogRotation
ParseLogRotation(t) ==
    CASE t = Word("daily") -> [ok |-> TRUE, val |-> [rotation |-> "Daily", bytes |-> 0]]
      [] t = Word("hourly") -> [ok |-> TRUE, val |-> [rotation |-> "Hourly", bytes |-> 0]]
      [] OTHER ->
           IF Len(t) >= 2 /\ t[1] = "bytes" /\ t[2] = "="
           THEN LET n == ParseUnsigned(SubSeq(t, 3, Len(t)))
                IN  [ok |-> n.ok, val |-> [rotation |-> "Bytes", bytes |-> n.val]]
           ELSE [ok |-> FALSE, val |-> [rotation |-> "", bytes |-> 0]]

\* possible_values!(Priority, ALL) and impl FromStr for Priority
ParsePriority(t) ==
    CASE t = Word("realtime") -> [ok |-> TRUE, val |-> "Realtime"]
      [] t = Word("high") -> [ok |-> TRUE, val |-> "High"]
      [] t = Word("above-normal") -> [ok |-> TRUE, val |-> "AboveNormal"]
      [] t = Word("normal") -> [ok |-> TRUE, val |-> "Normal"]
      [] t = Word("below-normal") -> [ok |-> TRUE, val |-> "BelowNormal"]
      [] t = Word("idle") -> [ok |-> TRUE, val |-> "Idle"]
      [] OTHER -> [ok |-> FALSE, val |-> ""]

\* cli::parse_env_var: value.splitn(2, '=')
parse_env_var(t) ==
    IF \E i \in DOMAIN t : t[i] = "="
    THEN LET k == CHOOSE i \in DOMAIN t : t[i] = "=" /\ \A j \in 1..(i - 1) : t[j] # "="
         IN  [ok |-> TRUE, val |-> <<SubSeq(t, 1, k - 1), SubSeq(t, k + 1, Len(t))>>]
    ELSE [ok |-> FALSE, val |-> <<>>]

\* A value of value_delimiter = ',' read as Vec<i32>
ParseCodes(t) ==
    LET parts == SplitOn(t, ",")
        each == [i \in DOMAIN parts |-> ParseSigned(parts[i])]
    IN  [ok |-> \A i \in DOMAIN each : each[i].ok,
         val |-> [i \in DOMAIN each |-> each[i].val]]

\* The arguments the derive attributes of CommonOpts and Subcommand declare:
\* where the value goes and how it is read.
ArgOf(sub, w) ==
    CASE w = "--pass" -> [scope |-> "common", field |-> "pass", value |-> "codes_opt"]
      [] w = "--restart" -> [scope |-> "common", field |-> "restart", value |-> "flag"]
      [] w = "--no-restart" -> [scope |-> "common", field |-> "no_restart", value |-> "flag"]
      [] w = "--restart-if" -> [scope |-> "common", field |-> "restart_if", value |-> "codes"]
      [] w = "--restart-if-not" ->
           [scope |-> "common", field |-> "restart_if_not", value |-> "codes"]
      [] w = "--stop-timeout" ->
           [scope |-> "common", field |-> "stop_timeout", value |-> "unsigned"]
      [] w = "--no-log" -> [scope |-> "common", field |-> "no_log", value |-> "flag"]
      [] w = "--no-log-cmd" -> [scope |-> "common", field |-> "no_log_cmd", value |-> "flag"]
      [] w = "--log-dir" -> [scope |-> "common", field |-> "log_dir", value |-> "path"]
      [] w = "--log-as" -> [scope |-> "common", field |-> "log_as", value |-> "string"]
      [] w = "--log-cmd-as" -> [scope |-> "common", field |-> "log_cmd_as", value |-> "string"]
      [] w = "--log-rotate" ->
           [scope |-> "common", field |-> "log_rotate", value |-> "rotation"]
      [] w = "--log-retain" ->
           [scope |-> "common", field |-> "log_retain", value |-> "unsigned"]
      [] w = "--pass-start-args" ->
           [scope |-> "common", field |-> "pass_start_args", value |-> "flag"]
      [] w = "--env" -> [scope |-> "common", field |-> "env", value |-> "env"]
      [] w = "--path" -> [scope |-> "common", field |-> "path", value |-> "paths"]
      [] w = "--path-prepend" ->
           [scope |-> "common", field |-> "path_prepend", value |-> "paths"]
      [] w = "--priority" -> [scope |-> "common", field |-> "priority", value |-> "priority"]
      [] w = "--cwd" ->
           [scope |-> "sub", field |-> "cwd",
            value |-> IF sub = "add" THEN "path" ELSE "string"]
      [] w = "--name" -> [scope |-> "sub", field |-> "name", value |-> "string"]
      [] w = "--dependencies" /\ sub = "add" ->
           [scope |-> "sub", field |-> "dependencies", value |-> "strings"]
      [] OTHER -> [scope |-> "", field |-> "", value |-> "unknown"]

\* The declarations without the conflict between --restart-if and --restart-if-not.
ConflictsWith_IfPairAllowed(field) ==
    CASE field = "restart" -> {"no_restart", "restart_if", "restart_if_not"}
      [] field = "no_restart" -> {"restart", "restart_if", "restart_if_not"}
      [] field = "restart_if" -> {"restart", "no_restart"}
      [] field = "restart_if_not" -> {"restart", "no_restart"}
      [] OTHER -> {}

\* conflicts_with(..) of the four restart options
ConflictsWith(field) ==
    CASE field = "restart" -> {"no_restart", "restart_if", "restart_if_not"}
      [] field = "no_restart" -> {"restart", "restart_if", "restart_if_not"}
      [] field = "restart_if" -> {"restart", "no_restart", "restart_if_not"}
      [] field = "restart_if_not" -> {"restart", "no_restart", "restart_if"}
      [] OTHER -> {}

\* The value parser of an argument applied to the text given for it.
ParseValue(value, t) ==
    CASE value \in {"codes", "codes_opt"} -> ParseCodes(t)
      [] value = "unsigned" -> ParseUnsigned(t)
      [] value \in {"path", "paths"} -> canonicalize(t)
      [] value = "string" -> [ok |-> TRUE, val |-> t]
      [] value = "strings" -> [ok |-> TRUE, val |-> SplitOn(t, ",")]
      [] value = "rotation" -> ParseLogRotation(t)
      [] value = "env" -> parse_env_var(t)
      [] value = "priority" -> ParsePriority(t)

\* The field after one more occurrence of its argument: a flag is set, a Vec
\* grows, an Option is filled.
Stored(value, old, v) ==
    CASE value = "flag" -> TRUE
      [] value = "codes_opt" -> Some(UnwrapOr(old, <<>>) \o v)
      [] value \in {"codes", "strings"} -> old \o v
      [] value \in {"env", "paths"} -> Append(old, v)
      [] OTHER -> Some(v)

Store(r, a, v) ==
    IF a.scope = "sub"
    THEN [r EXCEPT ![a.field] = Stored(a.value, @, v)]
    ELSE [r EXCEPT !.common = [@ EXCEPT ![a.field] = Stored(a.value, @, v)],
                   !.seen = @ \cup {a.field}]

ParseError(r, kind) == [r EXCEPT !.ok = FALSE, !.kind = kind]

RECURSIVE ParseTokens(_, _)
\* The arguments after the subcommand, left to right; everything after `--` is the
\* command.
ParseTokens(rest, r) ==
    IF rest = <<>> THEN r
    ELSE IF Head(rest) = Word("--")
         THEN [r EXCEPT !.common = [@ EXCEPT !.command = Tail(rest)]]
         ELSE LET a == IF Len(Head(rest)) = 1 THEN ArgOf(r.sub, Head(rest)[1])
                       ELSE ArgOf(r.sub, "")
              IN  IF a.value = "unknown" THEN ParseError(r, "UnknownArgument")
                  ELSE IF a.value = "flag"
                       THEN ParseTokens(Tail(rest), Store(r, a, TRUE))
                       ELSE IF Len(rest) < 2 \/ rest[2] = Word("--")
                            THEN ParseError(r, "UnknownArgument")
                            ELSE LET v == ParseValue(a.value, rest[2])
                                 IN  IF v.ok
                                     THEN ParseTokens(Tail(Tail(rest)), Store(r, a, v.val))
                                     ELSE ParseError(r, "ValueValidation")

\* What is checked once every argument is read: declared conflicts, then
\* required arguments.
Validate(r) ==
    IF ~r.ok THEN r
    ELSE IF \E f \in r.seen : ConflictsWith(f) \cap r.seen # {}
         THEN ParseError(r, "ArgumentConflict")
         ELSE IF r.common.command = <<>> \/ r.name = None
              THEN ParseError(r, "MissingRequiredArgument")
              ELSE r

\* Cli::try_parse_from(argv): argv[1] is the program, argv[2] the subcommand.
ParseCli(argv) ==
    LET sub == IF Len(argv) >= 2 /\ argv[2] \in {Word("add"), Word("run")}
               THEN argv[2][1] ELSE ""
        r0 == [ok |-> TRUE, kind |-> "", sub |-> sub,
               name |-> IF sub = "run" THEN Some(Word("Shawl")) ELSE None,
               cwd |-> None, dependencies |-> <<>>, common |-> DefaultOpts, seen |-> {}]
    IN  IF sub = "" THEN ParseError(r0, "InvalidSubcommand")
        ELSE Validate(ParseTokens(SubSeq(argv, 3, Len(argv)), r0))

\* --------------------------------------------- add, then the service start
\* One option with its value, as the words of a command line.
Occurrences ==
    { <<Word("--restart")>>,
      <<Word("--no-restart")>>,
      <<Word("--restart-if"), <<"1", ",", "-", "1">>>>,
      <<Word("--restart-if-not"), <<"7">>>>,
      <<Word("--pass"), <<"1", ",", "-", "1">>>>,
      <<Word("--stop-timeout"), <<"5", "0">>>>,
      <<Word("--no-log")>>,
      <<Word("--no-log-cmd")>>,
      <<Word("--log-dir"), RelDir>>,
      <<Word("--log-as"), Word("foo")>>,
      <<Word("--log-cmd-as"), Word("bar")>>,
      <<Word("--log-rotate"), <<"bytes", "=", "1", "2">>>>,
      <<Word("--log-retain"), <<"3">>>>,
      <<Word("--pass-start-args")>>,
      <<Word("--env"), <<"K", "=", "a", Space, "b">>>>,
      <<Word("--path"), RelSpaceDir>>,
      <<Word("--path-prepend"), RelDir>>,
      <<Word("--priority"), Word("high")>>,
      <<Word("--cwd"), RelSpaceDir>> }

RECURSIVE OptionLists(_)
\* The sequences of at most n occurrences of different options.
OptionLists(n) ==
    IF n = 0 THEN {<<>>}
    ELSE LET shorter == OptionLists(n - 1)
         IN  shorter \cup
             { Append(l, o) : <<l, o>> \in
                 { <<l, o>> \in shorter \X Occurrences :
                     /\ Len(l) = n - 1
                     /\ \A i \in DOMAIN l : l[i][1] # o[1] } }

\* Service names and commands, without and with a space.
Names == {Word("s"), <<"my", Space, "svc">>}
Commands == {<<Word("cmd")>>, <<<<"foo", Space, "bar">>, Word("--baz")>>}

\* std::env::args() of `shawl add ..` or `shawl run ..`
CommandLines ==
    { <<Word("shawl"), Word(sub), Word("--name"), n>> \o Concat(l) \o <<Word("--")>> \o c :
        sub \in {"add", "run"}, n \in Names, l \in OptionLists(MaxArgs), c \in Commands }

\* std::env::current_exe() in add_service
ShawlPath == Word("C:\\shawl.exe")
ShawlPathSpace == <<"C:\\Program", Space, "Files\\shawl.exe">>
ShawlPaths == {ShawlPath, ShawlPathSpace}

NoParse == [ok |-> FALSE, kind |-> "none"]

InitCli ==
    /\ cfg \in {c \in Configs : Options(c) = 0 /\ c.pass = None /\ c.stop_timeout = Some(0)
                                /\ ~c.restart /\ ~c.no_restart
                                /\ c.restart_if = <<>> /\ c.restart_if_not = <<>>}
    /\ pc = "register"
    /\ result = "none"
    /\ reports = <<>>
    /\ chan = 0
    /\ service_exit_code = NO_ERROR
    /\ ignore_ctrlc = FALSE
    /\ process_job = "none"
    /\ restart_after = None
    /\ children = <<>>
    /\ pumps = 0
    /\ elapsed = 0
    /\ left_by = "none"
    /\ stop_consumed = FALSE
    /\ ctrlc_count = 0
    /\ kill_calls = 0
    /\ exits = 0
    /\ poll_errors = 0
    /\ spawn_error = [failed |-> FALSE, raw |-> None]
    /\ \E argv \in CommandLines, exe \in ShawlPaths :
          call = [fn |-> "cli", stage |-> "args", argv |-> argv, exe |-> exe,
                  parsed |-> NoParse, shawl_args |-> <<>>, prepared_command |-> <<>>,
                  bin_path |-> <<>>, run |-> NoParse]

\* cli::evaluate_cli() on the command line the user typed
EvaluateCli ==
    /\ call.fn = "cli"
    /\ call.stage = "args"
    /\ LET r == ParseCli(call.argv)
       IN  call' = [call EXCEPT !.parsed = r,
                                !.stage = IF r.ok THEN r.sub ELSE "rejected"]
    /\ UNCHANGED <<hostvars, chan, children, exits>>

\* control::add_service: the binPath handed to `sc create`
AddService ==
    /\ call.fn = "cli"
    /\ call.stage = "add"
    /\ call' = [call EXCEPT
                  !.shawl_args = construct_shawl_run_args(Unwrap(call.parsed.name),
                                     call.parsed.cwd, call.parsed.common),
                  !.prepared_command = prepare_command(call.parsed.common.command),
                  !.bin_path = BinPath(call.exe, Unwrap(call.parsed.name),
                                       call.parsed.cwd, call.parsed.common),
                  !.stage = "registered"]
    /\ UNCHANGED <<hostvars, chan, children, exits>>

\* SCM starts the service: the registered binPath becomes the command line of
\* the new process, which parses it.
ServiceStart ==
    /\ call.fn = "cli"
    /\ call.stage = "registered"
    /\ call' = [call EXCEPT !.run = ParseCli(CommandLineArgs(call.bin_path)),
                            !.stage = "started"]
    /\ UNCHANGED <<hostvars, chan, children, exits>>

NextCli == EvaluateCli \/ AddService \/ ServiceStart

SpecCli == InitCli /\ [][NextCli]_vars

\* ================================================================ claims
\* What the claims talk about, stated apart from the model's own operators.
StatesReported == [i \in DOMAIN reports |-> reports[i].current_state]
StoppedReported == LastState = "Stopped"
ReportedExitCode == reports[Len(reports)].exit_code
Range(v) == {v[i] : i \in DOMAIN v}
PassSet == IF cfg.pass = None THEN {0} ELSE Range(cfg.pass[1])
\* The u32 whose value is the small natural number n.
SmallU32(n) == [hi |-> 0, lo |-> n]
\* u is the u32 with value c for c >= 0, and with value c + 2^32 for c < 0.
IsCastOf(u, c) ==
    IF c >= 0 THEN u.hi * HalfWord + u.lo = c
    ELSE (u.hi - HalfWord) * HalfWord + (u.lo - HalfWord) = c - HalfWord
HostStep == pc' # pc

\* C1: the states reported to SCM are a prefix of Running, StopPending?, Stopped:
\* Running comes first and once, StopPending and Stopped at most once, nothing
\* follows Stopped, and the host is past its first report only with Running reported.
C1_ReportOrder ==
    /\ StatesReported \in {<<>>, <<"Running">>, <<"Running", "StopPending">>,
                           <<"Running", "Stopped">>,
                           <<"Running", "StopPending", "Stopped">>}
    /\ (result = "none" /\ pc \notin {"register", "report_running"})
          => (Len(reports) >= 1 /\ reports[1].current_state = "Running")
C1_Witness == StatesReported = <<"Running", "StopPending", "Stopped">>

\* C2: a Stopped report that follows the observation Exited(c) of the last child
\* carries NoError iff c is a pass code, and otherwise ServiceSpecific(c as u32),
\* a negative c being c + 2^32.
C2_PassMapping ==
    (StoppedReported /\ left_by \in {"exited", "stop_exited"}) =>
        LET c == Current.code
            e == ReportedExitCode
        IN  /\ Current.st = "exited"
            /\ (e = Win32(SmallU32(0))) <=> (c \in PassSet)
            /\ (c \notin PassSet) => (e.kind = "ServiceSpecific" /\ IsCastOf(e.code, c))
C2_Witness ==
    /\ StoppedReported
    /\ left_by = "exited"
    /\ Current.code = -1
    /\ cfg.pass = None
    /\ ReportedExitCode = ServiceSpecific([hi |-> 65535, lo |-> 65535])

C4_StoppedAfterChildEnded ==
    StoppedReported => \A i \in DOMAIN children : children[i].st # "running"

\* C5: StopPending is reported before Ctrl+C is generated; Ctrl+C is generated at
\* most once in a run and never while the last reported state is Running.
C5_StopPendingBeforeCtrlC ==
    /\ [](ctrlc_count <= 1)
    /\ [](ctrlc_count = 1 => stop_consumed /\ StatesReported[2] = "StopPending")
    /\ [][ctrlc_count' # ctrlc_count => LastState = "StopPending"]_vars
    /\ [][(pc = "report_stop_pending" /\ HostStep /\ LastState' # "StopPending")
            => (pc' \in {"exit", "returned"} /\ ctrlc_count' = 0)]_vars
C5_Witness == ctrlc_count = 1 /\ LastState = "StopPending"

\* The decision column of the restart-policy table for an Exited(c) row.
TableDecision(c, restart, no_restart, restart_if, restart_if_not) ==
    CASE restart_if # <<>> -> c \in Range(restart_if)
      [] restart_if = <<>> /\ restart_if_not # <<>> -> c \notin Range(restart_if_not)
      [] restart_if = <<>> /\ restart_if_not = <<>> /\ restart -> TRUE
      [] restart_if = <<>> /\ restart_if_not = <<>> /\ ~restart /\ no_restart -> FALSE
      [] OTHER -> c # 0
\* At most one of the four restart options is active.
MutuallyExclusive(restart, no_restart, restart_if, restart_if_not) ==
    (IF restart THEN 1 ELSE 0) + (IF no_restart THEN 1 ELSE 0)
    + (IF restart_if # <<>> THEN 1 ELSE 0) + (IF restart_if_not # <<>> THEN 1 ELSE 0) <= 1

\* C6: should_restart_exited_command returns c in restart_if when restart_if is
\* non-empty, else c not in restart_if_not when that is non-empty, else
\* restart or (not no_restart and c # 0), for every flag combination; on the
\* mutually exclusive ones that is the decision of the restart-policy table.
C6_ExitedPolicy ==
    (call.fn = "exited" /\ call.done) =>
        /\ call.ret \in BOOLEAN
        /\ call.ret =
             (IF call.restart_if # <<>> THEN call.code \in Range(call.restart_if)
              ELSE IF call.restart_if_not # <<>>
                   THEN call.code \notin Range(call.restart_if_not)
                   ELSE call.restart \/ (~call.no_restart /\ call.code # 0))
        /\ MutuallyExclusive(call.restart, call.no_restart, call.restart_if,
                             call.restart_if_not)
             => call.ret = TableDecision(call.code, call.restart, call.no_restart,
                                         call.restart_if, call.restart_if_not)
C6_Witness ==
    /\ call.fn = "exited" /\ call.done
    /\ call.restart /\ call.no_restart /\ call.code = 0
    /\ call.restart_if = <<>> /\ call.restart_if_not = <<>>
    /\ call.ret = TRUE

\* C7: for a child observed Terminated in the supervise loop the host relaunches
\* iff restart is set, whatever no_restart and the code lists are; when it does
\* not, it leaves the loop and its next call is the Stopped report.
C7_TerminatedPolicy ==
    /\ [][(pc = "check" /\ HostStep /\ poll_errors' = poll_errors
           /\ Current.st = "terminated")
            => IF cfg.restart
               THEN pc' = "join_stdout" /\ left_by' = "none"
               ELSE pc' = "report_stopped" /\ left_by' = "terminated"]_vars
    /\ [][(left_by = "terminated" /\ pc = "report_stopped" /\ HostStep)
            => (StoppedReported' \/ result' = "Err")]_vars
C7_Witness ==
    /\ left_by = "terminated"
    /\ StoppedReported
    /\ cfg.restart_if = <<0, 7>>

\* C8: with no_restart set at most one child is ever spawned in a run.
C8_NoRestartSpawnsOnce == cfg.no_restart => Len(children) <= 1

\* C9: with restart set, a child observed Exited or Terminated in the supervise
\* loop is always followed by the relaunch path, which ends in a spawn unless a
\* stop event is consumed first; Stopped is reported only after a stop event was
\* consumed or a spawn failed.
C9_AlwaysRestart ==
    /\ [][(cfg.restart /\ pc = "check" /\ HostStep /\ poll_errors' = poll_errors
           /\ Current.st \in {"exited", "terminated"})
            => pc' = "join_stdout"]_vars
    /\ [][(cfg.restart /\ pc \in {"join_stdout", "join_stderr", "delay"} /\ HostStep)
            => \/ pc' \in {"join_stderr", "delay", "launch"}
               \/ stop_consumed' /\ left_by' = "cancelled"]_vars
    /\ []((cfg.restart /\ StoppedReported) => (stop_consumed \/ spawn_error.failed))
C9_Witness ==
    /\ cfg.restart
    /\ pc = "assign"
    /\ Len(children) = 3
    /\ exits = 2
    /\ poll_errors = 0
    /\ ~stop_consumed

\* C10: a failed spawn, first or later, is followed by no further spawn; the host
\* leaves the loop and the Stopped report carries Win32(raw OS error), or
\* Win32(ERROR_PROCESS_ABORTED) when the error has no OS code, whatever exit code
\* an earlier child recorded.
C10_SpawnFailure ==
    /\ [](spawn_error.failed =>
            /\ left_by = "spawn_failed"
            /\ pc \in {"report_stopped", "exit", "returned"}
            /\ StoppedReported =>
                 ReportedExitCode =
                    Win32(SmallU32(IF spawn_error.raw = None THEN 1067
                                   ELSE spawn_error.raw[1])))
    /\ [][spawn_error.failed => Len(children') = Len(children)]_vars
    /\ [][(pc = "launch" /\ HostStep) => (spawn_error'.failed \/ Len(children') = Len(children) + 1)]_vars
C10_Witness ==
    /\ spawn_error.failed
    /\ spawn_error.raw = None
    /\ StoppedReported
    /\ Len(children) = 1 /\ exits = 1 /\ poll_errors = 0
    /\ Current.st = "exited" /\ Current.code = 7
    /\ cfg.pass = None

C12_ReportFields ==
    \A i \in DOMAIN reports :
        LET r == reports[i]
        IN  /\ r.service_type = "OWN_PROCESS"
            /\ r.checkpoint = 0
            /\ r.current_state \in {"Running", "StopPending", "Stopped"}
            /\ r.current_state = "Running" =>
                  /\ r.controls_accepted = {"STOP", "SHUTDOWN"}
                  /\ r.exit_code = Win32(SmallU32(0))
                  /\ r.wait_hint = 0
            /\ r.current_state = "StopPending" =>
                  /\ r.controls_accepted = {}
                  /\ r.exit_code = Win32(SmallU32(0))
                  /\ r.wait_hint = (IF cfg.stop_timeout = None THEN 4000
                                    ELSE cfg.stop_timeout[1] + 1000)
            /\ r.current_state = "Stopped" =>
                  /\ r.controls_accepted = {}
                  /\ r.wait_hint = 0
C12_Witness ==
    /\ Len(reports) = 3
    /\ cfg.stop_timeout = None
    /\ reports[2].wait_hint = 4000
    /\ reports[3].exit_code # Win32(SmallU32(0))

\* C13: the handler returns NoError for Interrogate, Stop and Shutdown and
\* NotImplemented for every other control; a message is put on the stop channel
\* only by a Stop or Shutdown call, one per call; a call with Interrogate or
\* another control changes nothing of the channel, the reports, the exit code and
\* the host thread; no handler call reports a status.
C13_HandlerControls ==
    /\ [](call.fn = "event_handler" =>
            call.ret = (IF call.control \in {"Interrogate", "Stop", "Shutdown"}
                        THEN "NoError" ELSE "NotImplemented"))
    /\ [][chan' > chan =>
            /\ call'.fn = "event_handler"
            /\ call'.control \in {"Stop", "Shutdown"}
            /\ chan' = chan + 1
            /\ UNCHANGED <<hostvars, children>>]_vars
    /\ [][call' # call =>
            /\ UNCHANGED <<hostvars, children>>
            /\ call'.control \in {"Stop", "Shutdown"} => chan' = chan + 1
            /\ call'.control \notin {"Stop", "Shutdown"} => chan' = chan]_vars
C13_Witness ==
    /\ call.fn = "event_handler"
    /\ call.control = "Pause"
    /\ call.ret = "NotImplemented"
    /\ pc = "stop_poll"
    /\ chan = 0
    /\ stop_consumed

\* The exit code the pass mapping gives the exit code c of a child.
PassCode(c) ==
    IF c \in PassSet THEN Win32(SmallU32(0))
    ELSE ServiceSpecific(IF c >= 0 THEN SmallU32(c)
                         ELSE [hi |-> HalfWord - 1, lo |-> HalfWord + c])

\* C14 as stated: Stopped reported after a stop consumed during the restart delay
\* carries NoError.
C14_CancelNoError ==
    (StoppedReported /\ left_by = "cancelled") => ReportedExitCode = Win32(SmallU32(0))

\* C14, amended: a stop event found in the channel during the restart delay makes
\* the host leave the loop at once; no further child is spawned, StopPending is
\* not reported and no Ctrl+C is generated, and Stopped carries the exit code
\* recorded for the child whose restart was pending, which is NoError only when
\* that child exited with a pass code.
C14_CancelDuringDelay ==
    /\ [][(pc = "delay" /\ chan > 0 /\ HostStep)
            => /\ pc' = "report_stopped"
               /\ left_by' = "cancelled"
               /\ stop_consumed'
               /\ chan' = chan - 1
               /\ service_exit_code' = service_exit_code
               /\ children' = children]_vars
    /\ [][left_by = "cancelled"
            => /\ Len(children') = Len(children)
               /\ service_exit_code' = service_exit_code
               /\ ctrlc_count' = 0]_vars
    /\ []((StoppedReported /\ left_by = "cancelled")
            => /\ StatesReported = <<"Running", "Stopped">>
               /\ ReportedExitCode = service_exit_code
               /\ poll_errors = 0 =>
                     /\ Current.st \in {"exited", "terminated"}
                     /\ ReportedExitCode =
                          (IF Current.st = "exited" THEN PassCode(Current.code)
                           ELSE Win32(SmallU32(1067))))
C14_Witness ==
    /\ StoppedReported
    /\ left_by = "cancelled"
    /\ Len(children) = 1
    /\ poll_errors = 0
    /\ Current.code = 7
    /\ ReportedExitCode = ServiceSpecific(SmallU32(7))

\* C15: in the graceful-stop wait a child observed Exited(c) is not killed, whatever
\* time has elapsed, and its code is recorded and reported per the pass mapping;
\* child.kill() is called, or the job dropped, only in an iteration that observed
\* the child Running with at least stop_timeout ms elapsed since the Ctrl+C.
C15_ExitPreferredOverKill ==
    /\ [][(pc = "stop_poll" /\ HostStep /\ poll_errors' = poll_errors
           /\ Current.st = "exited")
            => /\ left_by' = "stop_exited"
               /\ kill_calls' = kill_calls
               /\ process_job' = process_job
               /\ children' = children
               /\ service_exit_code' = PassCode(Current.code)]_vars
    /\ [][(kill_calls' # kill_calls \/ (pc = "stop_poll" /\ process_job' # process_job))
            => /\ pc = "stop_poll"
               /\ Current.st = "running"
               /\ elapsed >= stop_timeout
               /\ ctrlc_count = 1
               /\ left_by' = "stop_timeout"]_vars
    /\ []((StoppedReported /\ left_by = "stop_exited")
            => /\ kill_calls = 0
               /\ Current.st = "exited"
               /\ ReportedExitCode = PassCode(Current.code))
C15_Witness ==
    /\ StoppedReported
    /\ left_by = "stop_exited"
    /\ cfg.stop_timeout = Some(StopPollSleep)
    /\ elapsed = StopPollSleep
    /\ Current.code = 7
    /\ ReportedExitCode = ServiceSpecific(SmallU32(7))
    /\ kill_calls = 0

\* C16: the stop-timeout branch takes exactly one termination action: holding a
\* job it drops the job and does not call child.kill(), otherwise it calls
\* child.kill() once; a job is held only with kill_process_tree, it is dropped
\* only in the timeout branch or when run_service returns, and only once.
C16_OneTerminationAction ==
    /\ [][(left_by' = "stop_timeout" /\ left_by # "stop_timeout")
            => /\ pc = "stop_poll"
               /\ IF process_job = "held"
                  THEN process_job' = "dropped" /\ kill_calls' = kill_calls
                  ELSE process_job' = process_job /\ kill_calls' = kill_calls + 1]_vars
    /\ [][kill_calls' # kill_calls => left_by' = "stop_timeout" /\ left_by = "none"]_vars
    /\ [](kill_calls <= 1 /\ (kill_calls = 1 => process_job = "none"))
    /\ [](process_job = "held" => cfg.kill_process_tree)
    /\ [][process_job' # process_job
            => \/ pc = "create_job" /\ process_job = "none" /\ process_job' = "held"
               \/ /\ process_job = "held" /\ process_job' = "dropped"
                  /\ \/ pc = "stop_poll" /\ left_by' = "stop_timeout"
                     \/ pc = "exit" /\ pc' = "returned"]_vars
    /\ [](pc = "returned" => process_job # "held")
C16_Witness ==
    /\ left_by = "stop_timeout"
    /\ process_job = "dropped"
    /\ kill_calls = 0
    /\ pc = "report_stopped"
    /\ Current.st = "killed"

\* C17: once a Stop or Shutdown control has put its message on the channel, the
\* host eventually reports Stopped, whatever the child does.  Stated in the weaker
\* form that also accepts run_service returning the error of a failed status
\* report in place of the Stopped report.
C17_StopLeadsToStopped ==
    (chan > 0) ~> (StoppedReported \/ result = "Err")

\* A step that drops the job.
JobDropped == process_job = "held" /\ process_job' = "dropped"

RestartWords == {"--restart", "--no-restart", "--restart-if", "--restart-if-not"}
RestartOptionsIn(argv) ==
    { w \in RestartWords :
        \E i \in DOMAIN argv :
            /\ argv[i] = Word(w)
            /\ \A j \in 1..i : argv[j] # Word("--") }

\* C19: a command line that names two of --restart, --no-restart, --restart-if
\* and --restart-if-not, in whatever order, is rejected with ArgumentConflict, and
\* every configuration the parser lets through has at most one of restart,
\* no_restart, non-empty restart_if, non-empty restart_if_not.
C19_ConflictsRejected ==
    (call.fn = "cli" /\ call.stage # "args") =>
        /\ Cardinality(RestartOptionsIn(call.argv)) >= 2 =>
              ~call.parsed.ok /\ call.parsed.kind = "ArgumentConflict"
        /\ call.parsed.ok =>
              MutuallyExclusive(call.parsed.common.restart, call.parsed.common.no_restart,
                                call.parsed.common.restart_if,
                                call.parsed.common.restart_if_not)
        /\ (call.stage = "started" /\ call.run.ok) =>
              MutuallyExclusive(call.run.common.restart, call.run.common.no_restart,
                                call.run.common.restart_if, call.run.common.restart_if_not)

\* A line with --restart-if-not before --restart-if was rejected, and so was one
\* with them the other way round.
C19_Witness ==
    /\ call.fn = "cli"
    /\ call.stage = "rejected"
    /\ call.parsed.kind = "ArgumentConflict"
    /\ RestartOptionsIn(call.argv) = {"--restart-if", "--restart-if-not"}
    /\ call.argv[5] = Word("--restart-if-not")

\* C20: the service started from the binPath that add registered gets the name, the
\* cwd, the command and every option of CommonOpts that add was given.
C20_RoundTrip ==
    (call.fn = "cli" /\ call.stage = "started") =>
        /\ call.run.ok
        /\ call.run.name = call.parsed.name
        /\ call.run.cwd = call.parsed.cwd
        /\ call.run.common = call.parsed.common

\* A token as the binPath carries it: between one pair of double quotes when it
\* has a space, as it is otherwise.
HasSpace(t) == \E i \in DOMAIN t : t[i] = Space
Emitted(t) == IF HasSpace(t) THEN <<Quote>> \o t \o <<Quote>> ELSE t
\* The words that follow the option w in the run arguments.
ValuesAfter(words, w) == [k \in 1..Cardinality({i \in DOMAIN words : words[i] = Word(w)}) |->
    words[(CHOOSE i \in DOMAIN words :
            /\ words[i] = Word(w)
            /\ Cardinality({j \in 1..i : words[j] = Word(w)}) = k) + 1]]

\* C21: in the binPath that add builds, the wrapper path, the service name, the
\* cwd, the log directory, each KEY=value, each path and each command part is
\* between one pair of double quotes iff it has a space and unchanged otherwise;
\* the run arguments start with run, --name and the name and hold nothing of the
\* wrapped command.
C21_QuotedIffSpace ==
    (call.fn = "cli" /\ call.stage \in {"registered", "started"}) =>
        LET p == call.parsed
            o == call.parsed.common
            shawl_args == call.shawl_args
        IN  /\ SubSeq(shawl_args, 1, 3) = <<Word("run"), Word("--name"), Emitted(Unwrap(p.name))>>
            /\ ValuesAfter(shawl_args, "--cwd")
                 = (IF IsSome(p.cwd) THEN <<Emitted(Unwrap(p.cwd))>> ELSE <<>>)
            /\ ValuesAfter(shawl_args, "--log-dir")
                 = (IF IsSome(o.log_dir) THEN <<Emitted(Unwrap(o.log_dir))>> ELSE <<>>)
            /\ ValuesAfter(shawl_args, "--env")
                 = [i \in DOMAIN o.env |-> Emitted(o.env[i][1] \o <<"=">> \o o.env[i][2])]
            /\ ValuesAfter(shawl_args, "--path") = [i \in DOMAIN o.path |-> Emitted(o.path[i])]
            /\ call.prepared_command = [i \in DOMAIN o.command |-> Emitted(o.command[i])]
            /\ \A i \in DOMAIN shawl_args :
                  /\ shawl_args[i] # Word("--")
                  /\ \A j \in DOMAIN call.prepared_command : shawl_args[i] # call.prepared_command[j]
            /\ call.bin_path = Emitted(call.exe) \o <<Space>> \o Join(shawl_args, <<Space>>)
                                 \o <<Space, "--", Space>>
                                 \o Join(call.prepared_command, <<Space>>)

\* A binPath with a quoted wrapper path, a quoted name, a quoted command part
\* and an unquoted one.
C21_Witness ==
    /\ call.fn = "cli"
    /\ call.stage = "registered"
    /\ HasSpace(call.exe)
    /\ HasSpace(Unwrap(call.parsed.name))
    /\ call.shawl_args[3] = <<Quote, "my", Space, "svc", Quote>>
    /\ call.prepared_command = <<<<Quote, "foo", Space, "bar", Quote>>, Word("--baz")>>
    /\ ValuesAfter(call.shawl_args, "--env") = <<<<Quote, "K", "=", "a", Space, "b", Quote>>>>
    /\ ValuesAfter(call.shawl_args, "--log-dir") = <<AbsDir>>

\* The start arguments without the service name.
AfterName(arguments) == SubSeq(arguments, 2, Len(arguments))

\* C22: service_main drops the first start argument when there is one, and every
\* spawn of the run, the first and each relaunch, is given the command's own
\* arguments followed by the remaining start arguments, in order, when
\* pass_start_args is set, and the command's own arguments alone when it is not.
C22_StartArgsAppended ==
    (call.fn = "service_main" /\ pc # "service_main") =>
        /\ call.start_arguments = AfterName(call.arguments)
        /\ Len(call.spawns) = Len(children)
        /\ \A i \in DOMAIN call.spawns :
              /\ call.spawns[i].program = call.command[1]
              /\ <<call.spawns[i].program>> \o call.spawns[i].args
                   = IF call.pass_start_args
                     THEN call.command \o AfterName(call.arguments)
                     ELSE call.command

\* A relaunch was given the command's argument, then the two start arguments
\* that followed the service name.
C22_Witness ==
    /\ call.fn = "service_main"
    /\ call.pass_start_args
    /\ call.arguments = <<ServiceName, Word("x"), Word("y")>>
    /\ Len(call.spawns) >= 2
    /\ call.spawns[2].args = <<Word("--flag"), Word("x"), Word("y")>>

\* The value of key in the environment a Command gives the child: that of the
\* last env(key, ..) call, None when there was no such call.
ChildEnv(envs, key) ==
    IF \E i \in DOMAIN envs : envs[i][1] = key
    THEN Some(envs[CHOOSE i \in DOMAIN envs :
                     /\ envs[i][1] = key
                     /\ \A j \in (i + 1)..Len(envs) : envs[j][1] # key][2])
    ELSE None
\* The parts of the PATH in the order the child is to get them.
PathParts ==
    call.path_prepend
    \o (IF IsSome(call.path_var) THEN <<Unwrap(call.path_var)>> ELSE <<>>)
    \o call.path
    \o (IF IsSome(call.cwd) THEN <<Unwrap(call.cwd)>> ELSE <<>>)

\* C23: on every spawn of a run the PATH set for the child is the --path-prepend
\* entries, the PATH of the host when it has one, the --path entries and the cwd
\* when set, in this order and each list in its given order, joined with ';';
\* with none of the parts the host sets no PATH.
C23_PathOrder ==
    (call.fn = "service_main") =>
        \A i \in DOMAIN call.spawns :
            LET envs == call.spawns[i].envs
            IN  IF PathParts = <<>>
                THEN envs = call.env
                ELSE /\ ChildEnv(envs, Word("PATH")) = Some(Join(PathParts, <<";">>))
                     /\ SubSeq(envs, 1, Len(envs) - 1) = call.env

\* A relaunch with two directories before the PATH of the host, two after it
\* and the cwd last.
C23_Witness ==
    /\ call.fn = "service_main"
    /\ Len(call.spawns) >= 2
    /\ ChildEnv(call.spawns[2].envs, Word("PATH"))
         = Some(<<"C:\\p", ";", "C:\\q", ";", "C:\\Windows", ";", "C:\\bin", ";",
                  "C:\\a", ";", "C:\\b", ";", "C:\\work">>)

\* The value the --env entries give a key: that of the last entry for it.
LastEntry(key) ==
    call.env[CHOOSE i \in DOMAIN call.env :
               /\ call.env[i][1] = key
               /\ \A j \in (i + 1)..Len(call.env) : call.env[j][1] # key][2]

\* C24: in the environment of every child each key of an --env entry has the
\* value of the last entry for that key, the key PATH too: the entries are applied
\* after the computed PATH.
C24_EnvAppliedLast ==
    (call.fn = "service_main") =>
        \A i \in DOMAIN call.spawns : \A k \in DOMAIN call.env :
            ChildEnv(call.spawns[i].envs, call.env[k][1]) = Some(LastEntry(call.env[k][1]))

\* C25: with no Ctrl+C from elsewhere, the handler never aborts the host: each
\* run of the handler for an event of the host's own GenerateConsoleCtrlEvent
\* reads the flag as raised, however the handler thread and the host interleave.
C25_OwnCtrlCIgnored ==
    (call.fn = "ctrlc_handler" /\ call.external = 0) =>
        /\ result # "aborted"
        /\ call.handled > 0 => call.read.ignore

\* Where the host is between raising the flag and clearing it.
StopWindow == {"gen_ctrlc", "stop_poll", "clear_ignore"}

\* C26: the flag is raised exactly while the host is between
\* ignore_ctrlc.store(true) and ignore_ctrlc.store(false): not before StopPending
\* is reported, already when GenerateConsoleCtrlEvent is called, through the stop
\* wait with its kill, and no more when Stopped is reported; a handler run that
\* finds the host outside this window aborts the process, one inside does not.
C26_IgnoreWindow ==
    (call.fn = "ctrlc_handler") =>
        /\ ignore_ctrlc <=> pc \in StopWindow
        /\ ignore_ctrlc => LastState = "StopPending"
        /\ pc = "gen_ctrlc" => ctrlc_count = 0
        /\ (ctrlc_count > 0 /\ pc \notin StopWindow \cup {"aborted"}) =>
              pc \in {"report_stopped", "exit", "returned"}
        /\ StoppedReported => ~ignore_ctrlc
        /\ kill_calls > 0 => pc # "set_ignore" /\ ctrlc_count > 0
        /\ call.handled > 0 =>
              /\ call.read.ignore <=> call.read.at \in StopWindow
              /\ ~call.read.ignore => result = "aborted"
        /\ result = "aborted" => call.handled > 0 /\ ~call.read.ignore

\* A Ctrl+C from elsewhere while the child was being supervised: the handler
\* found the flag down and aborted the process.
C26_Witness ==
    /\ call.fn = "ctrlc_handler"
    /\ call.external = 1
    /\ call.read.at = "inner_recv"
    /\ result = "aborted"

\* C27: a status poll that fails in the supervise loop leaves
\* Win32(ERROR_PROCESS_ABORTED) as the exit code and is followed by what follows a
\* Terminated child: the relaunch path when restart is set, else the way out of
\* the loop to the Stopped report.
C27_PollFailureLikeTerminated ==
    [][(pc = "check" /\ poll_errors' = poll_errors + 1) =>
          /\ service_exit_code' = Win32(AsU32(ERROR_PROCESS_ABORTED))
          /\ IF should_restart_terminated_command(cfg.restart, cfg.no_restart)
             THEN pc' = "join_stdout"
             ELSE pc' = "report_stopped"]_vars

\* C28: once Stopped has been reported, both logger threads of the last child
\* have been joined.
C28_JoinedBeforeStopped ==
    (LastState = "Stopped" /\ Len(children) > 0) => pumps = 0

\* C29: when a later child is spawned, both logger threads of the earlier child
\* have been joined, and never more than two logger threads are unjoined.
C29_JoinedBeforeRespawn ==
    /\ [][Len(children') > Len(children) => pumps = 0]_vars
    /\ [](pumps <= 2)

C29_Witness == Len(children) >= 2 /\ pumps = 2

\* C30: while the host is at a join of a logger thread that reads the child's
\* pipe, the child has already ended, so the join returns.
C30_JoinAfterChildEnded ==
    (pc \in {"join_stdout", "join_stderr"} /\ ~cfg.no_log_cmd) => Current.st # "running"

\* C31: with restart_delay the host goes on to the spawn only from a look at the
\* channel that found it empty and the deadline reached, a sleep step takes at
\* most 50 ms off the time left, and a look that finds a stop message leads to the
\* Stopped report; without restart_delay the joins lead straight to the spawn and
\* the channel is not read.
C31_DelayBeforeRelaunch ==
    [][/\ (pc = "delay" /\ pc' = "launch") =>
             (chan = 0 /\ Unwrap(restart_after) <= DelayRecvTimeout)
       /\ (pc = "delay" /\ pc' = "delay" /\ restart_after' # restart_after) =>
             \/ Unwrap(restart_after') = 0
             \/ Unwrap(restart_after) - Unwrap(restart_after') <= DelayRecvTimeout + DelayStep
       /\ (pc = "delay" /\ chan > 0 /\ pc' # pc) =>
             (pc' = "report_stopped" /\ Len(children') = Len(children))
       /\ (pc = "join_stderr" /\ pc' # pc) =>
             IF IsSome(cfg.restart_delay)
             THEN pc' = "delay" /\ restart_after' = cfg.restart_delay
             ELSE pc' = "launch" /\ chan' = chan]_vars

C31_Witness ==
    /\ pc = "assign" /\ Len(children) = 2
    /\ cfg.restart_delay = Some(60)

\* C32: a failed registration of the control handler makes run_service return
\* the error at once, and a run that returned before any report has neither
\* created a job nor spawned a child.
C32_RegisterFailureReturns ==
    /\ [][(pc = "register" /\ result' = "Err") =>
             (pc' = "returned" /\ reports' = <<>> /\ process_job' = "none"
              /\ children' = <<>>)]_vars
    /\ []((pc = "returned" /\ result = "Err" /\ reports = <<>>) =>
             (process_job = "none" /\ children = <<>> /\ pumps = 0 /\ ctrlc_count = 0))

C32_Witness ==
    /\ pc = "returned" /\ result = "Err" /\ reports = <<>>
    /\ ~stop_consumed /\ chan = 0

\* C33: when the stop-timeout branch was taken and the child still runs (the
\* kill, or the closing of the job, did not end it), the host has recorded
\* NoError, goes on to clear the ignore-Ctrl+C flag and to the Stopped report, and
\* returns Ok with Stopped and NoError unless that report itself fails.
C33_KillFailureNotPropagated ==
    (left_by = "stop_timeout" /\ Current.st = "running") =>
        /\ service_exit_code = NO_ERROR
        /\ pc \in {"clear_ignore", "report_stopped", "exit", "returned"}
        /\ pc # "clear_ignore" => ~ignore_ctrlc
        /\ pc \in {"exit", "returned"} =>
              \/ /\ result = "Ok" /\ LastState = "Stopped"
                 /\ reports[Len(reports)].exit_code = NO_ERROR
              \/ result = "Err" /\ LastState = "StopPending"

C33_Witness ==
    /\ left_by = "stop_timeout" /\ Current.st = "running" /\ kill_calls = 1
    /\ pc = "returned" /\ result = "Ok" /\ LastState = "Stopped"

\* The current child has ended by itself and the policy says not to restart it.
StaysDown ==
    /\ Len(children) > 0
    /\ \/ /\ Current.st = "exited"
          /\ ~should_restart_exited_command(Current.code, cfg.restart, cfg.no_restart,
                                            cfg.restart_if, cfg.restart_if_not)
       \/ /\ Current.st = "terminated"
          /\ ~should_restart_terminated_command(cfg.restart, cfg.no_restart)

C35_OneChildRunning ==
    Cardinality({i \in DOMAIN children : children[i].st = "running"}) <= 1

\* C36: the exit code of a Stopped report that follows no failed spawn is one the
\* last child spawned accounts for: NoError (a pass code or the forced kill), the
\* code of its exit, or Win32(ERROR_PROCESS_ABORTED) for its termination.
C36_CodeOfLastChild ==
    (StoppedReported /\ ~spawn_error.failed /\ Len(children) > 0) =>
        ReportedExitCode \in
            {NO_ERROR, Win32(AsU32(ERROR_PROCESS_ABORTED))}
            \cup (IF Current.st = "exited" THEN {ExitedCode(Current.code)} ELSE {})

\* C37: after the host has consumed a stop message no child is spawned; the
\* status of the child is polled in the supervise loop only after a look at the
\* channel that found it empty, and a look that finds a message takes it and
\* starts the stop, whatever the child's state and the restart policy are.
C37_StopBeforeStatus ==
    /\ [][stop_consumed => Len(children') = Len(children)]_vars
    /\ [][(pc' = "check" /\ pc # "check") => (pc = "inner_recv" /\ chan = 0)]_vars
    /\ [][(pc = "inner_recv" /\ chan > 0 /\ HostStep) =>
             (pc' = "report_stop_pending" /\ stop_consumed' /\ chan' = chan - 1)]_vars
    /\ [](stop_consumed => pc \notin {"launch", "assign", "inner_recv", "check",
                                      "join_stdout", "join_stderr", "delay"})

C37_Witness ==
    /\ StoppedReported /\ stop_consumed /\ left_by = "stop_exited"
    /\ Current.st = "exited"
    /\ should_restart_exited_command(Current.code, cfg.restart, cfg.no_restart,
                                     cfg.restart_if, cfg.restart_if_not)
    /\ elapsed = 0

\* C38: with kill_process_tree, once the stop timeout has expired the host has
\* acted on the child itself: it called child.kill(), or it closed a job the
\* child is in.
C38_TimeoutTerminatesChild ==
    (cfg.kill_process_tree /\ left_by = "stop_timeout") =>
        (kill_calls > 0 \/ Current.in_job)

\* C39: a StopPending report that fails makes run_service return the error in
\* that step; in the run that ended so no Ctrl+C was generated, the ignore-Ctrl+C
\* flag is false, child.kill() was not called, the logger threads of the child are
\* unjoined, and no report follows, so Stopped is never reported.
C39_StopPendingFailureReturns ==
    /\ [][(pc = "report_stop_pending" /\ HostStep /\ reports' = reports) =>
             (result' = "Err" /\ pc' \in {"exit", "returned"})]_vars
    /\ []((result = "Err" /\ stop_consumed /\ left_by = "none" /\ LastState = "Running") =>
             /\ pc \in {"exit", "returned"}
             /\ ctrlc_count = 0 /\ ~ignore_ctrlc /\ kill_calls = 0
             /\ pumps = 2)
    /\ [][(pc \in {"exit", "returned"}) => (reports' = reports)]_vars

C39_Witness ==
    /\ result = "Err" /\ stop_consumed /\ left_by = "none" /\ LastState = "Running"
    /\ pc = "returned" /\ Current.st = "running" /\ Len(children) = 2

\* C40: no send of the control handler on the stop channel returns Err, so the
\* handler's unwrap does not panic.
C40_SendNeverFails == call.fn # "send"
====
